---- MODULE Spec2Model ----
(***************************************************************************)
(* The poll - dedup - persist - forward pipeline of the attendance sync     *)
(* service (the remote-sync variant: createRecordSignature,                 *)
(* loadExistingRecords, saveRecords, fetchDeviceData, sendToCSharpAPI,      *)
(* fetchAndSendToAPI and the entry points that start a cycle).              *)
(*                                                                          *)
(* JavaScript runs one callback at a time: the code between two awaits is   *)
(* one atomic step.  A cycle therefore has three steps: its start (the two  *)
(* device fetches are launched), the step that runs when Promise.allSettled *)
(* resolves (merge, accept, publish, save, launch the POST), and the step   *)
(* that runs when the POST settles (build the return value).                *)
(***************************************************************************)
EXTENDS Integers, Sequences, FiniteSets, TLC

\* ------------------------------------------------------------------ bounds
MaxCycles == 2      \* cycles started in one run of the model
MaxBuf == 2         \* raw logs a terminal's buffer may hold
MaxDay == 2         \* UTC days the clock may reach
MaxRestarts == 1    \* process restarts
MaxUsers == 2       \* entries of a user table handed to the merge on its own
MaxStored == 2      \* entries of a day file handed to load or save on its own

\* ------------------------------------------------------------- configuration
DeviceIN == "192.168.18.253"
DeviceOUT == "192.168.18.252"
devices == <<DeviceIN, DeviceOUT>>
DeviceSet == {devices[i] : i \in 1..Len(devices)}
AdminRole == 14

Cycles == 1..MaxCycles
Days == 1..MaxDay

\* ------------------------------------------------------------- sequences
Range(s) == {s[i] : i \in 1..Len(s)}

RECURSIVE SeqFilter(_, _)
\* the elements of s that are in the set keep, in order
SeqFilter(s, keep) ==
    IF s = <<>> THEN <<>>
    ELSE IF Head(s) \in keep THEN <<Head(s)>> \o SeqFilter(Tail(s), keep)
         ELSE SeqFilter(Tail(s), keep)

\* slice(0, n): the first n elements in the place of the last n
SliceLast_FromFront(s, n) ==
    IF n >= Len(s) THEN s ELSE SubSeq(s, 1, n)

\* slice(-n) taken one element too far back
SliceLast_OneMore(s, n) ==
    IF n + 1 >= Len(s) THEN s ELSE SubSeq(s, Len(s) - n, Len(s))

\* Array.prototype.slice(-n): the last n elements (all of them when n >= length)
SliceLast(s, n) ==
    IF n >= Len(s) THEN s ELSE SubSeq(s, Len(s) - n + 1, Len(s))

\* ------------------------------------------------------------------ time
\* The timestamps a terminal log or a stored entry may carry.  Two textual
\* forms denote each instant; "garbage" is not a date.  The process runs in UTC.
NaN == -1
TimeForms == {"2024-01-01 08:00:00", "2024-01-01T08:00:00.000Z",
              "2024-01-01 09:00:00", "2024-01-01T09:00:00.000Z", "garbage"}

\* new Date(x).getTime(): epoch milliseconds (scaled), NaN for an invalid date
DateGetTime(t) ==
    CASE t \in {"2024-01-01 08:00:00", "2024-01-01T08:00:00.000Z"} -> 1
      [] t \in {"2024-01-01 09:00:00", "2024-01-01T09:00:00.000Z"} -> 2
      [] OTHER -> NaN

\* new Date(x).toISOString(): the UTC ISO-8601 form; throws RangeError on NaN
ToISOStringThrows(t) == DateGetTime(t) = NaN
ToISOString(t) ==
    CASE DateGetTime(t) = 1 -> "2024-01-01T08:00:00.000Z"
      [] DateGetTime(t) = 2 -> "2024-01-01T09:00:00.000Z"
      [] OTHER -> "RangeError"

\* template-literal rendering of getTime()
MillisToString(ms) == IF ms = NaN THEN "NaN" ELSE ToString(ms)

\* -------------------------------------------------------------- signature
\* a key made of the user id and the time alone
createRecordSignature_NoDevice(record) ==
    record.deviceUserId \o "_" \o MillisToString(DateGetTime(record.recordTime))

createRecordSignature(record) ==
    record.deviceIP \o "_" \o record.deviceUserId \o "_"
        \o MillisToString(DateGetTime(record.recordTime))

Signatures(s) == {createRecordSignature(s[i]) : i \in 1..Len(s)}

\* no two positions of s hold records with the same signature
NoDuplicateSignature(s) ==
    \A i, j \in 1..Len(s) :
        createRecordSignature(s[i]) = createRecordSignature(s[j]) => i = j

\* ------------------------------------------------------------- terminals
\* The user table each terminal serves (userId is the terminal's own key).
UserTable(ip) ==
    IF ip = DeviceIN
    THEN <<[userId |-> "7", name |-> "Alice", role |-> 0],
           [userId |-> "9", name |-> "Root", role |-> AdminRole]>>
    ELSE <<[userId |-> "7", name |-> "Alicia", role |-> AdminRole],
           [userId |-> "8", name |-> "", role |-> 0]>>

\* The raw attendance logs a terminal may come to hold.  The first two are the
\* same event in two textual forms; the last has an empty user id.
RawLogPool(ip) ==
    IF ip = DeviceIN
    THEN {[userSn |-> 1, deviceUserId |-> "7", recordTime |-> "2024-01-01 08:00:00"],
          [userSn |-> 2, deviceUserId |-> "7", recordTime |-> "2024-01-01T08:00:00.000Z"],
          [userSn |-> 4, deviceUserId |-> "", recordTime |-> "2024-01-01 09:00:00"]}
    ELSE {[userSn |-> 3, deviceUserId |-> "8", recordTime |-> "2024-01-01 09:00:00"]}

\* The steps of a device session that may fail (each is awaited in the try block).
FailPoints == {"createSocket", "getInfo", "getUsers", "getAttendances", "disconnect"}

\* userMap[id] || 'Unknown': the name of the last table entry with that id,
\* 'Unknown' when there is none or the name is empty
LookupName(allUsers, id) ==
    LET hits == {i \in 1..Len(allUsers) : allUsers[i].userId = id}
        last == CHOOSE i \in hits : \A j \in hits : j <= i
    IN  IF hits = {} \/ allUsers[last].name = "" THEN "Unknown"
        ELSE allUsers[last].name

\* an enrichment that passes the terminal's recordTime through as it came
EnhanceLog_RawTime(log, ip, allUsers) ==
    [userSn |-> log.userSn,
     deviceUserId |-> log.deviceUserId,
     name |-> LookupName(allUsers, log.deviceUserId),
     type |-> IF ip = DeviceIN THEN "IN" ELSE "OUT",
     deviceIP |-> ip,
     recordTime |-> log.recordTime]

\* One raw log with name, type, deviceIP and the normalised recordTime.
EnhanceLog(log, ip, allUsers) ==
    [userSn |-> log.userSn,
     deviceUserId |-> log.deviceUserId,
     name |-> LookupName(allUsers, log.deviceUserId),
     type |-> IF ip = DeviceIN THEN "IN" ELSE "OUT",
     deviceIP |-> ip,
     recordTime |-> ToISOString(log.recordTime)]

\* err.message of a failed session step, and of toISOString on an invalid date
SessionError == "TIMEOUT"
RangeError == "Invalid time value"

\* an offline result that does not carry the error message
OfflineResult_NoError(ip, message) ==
    [info |-> "none", allUsers |-> <<>>, adminUsers |-> <<>>,
     attendanceLogs |-> <<>>, deviceIP |-> ip, status |-> "offline"]

\* The result a failed fetch resolves to (the catch block).
OfflineResult(ip, message) ==
    [info |-> "none", allUsers |-> <<>>, adminUsers |-> <<>>,
     attendanceLogs |-> <<>>, deviceIP |-> ip, status |-> "offline",
     error |-> message]

\* fetchDeviceData(ip): failAt is the session step that throws ("none": no step
\* does), users and logs are what the terminal serves at that moment.
fetchDeviceData(ip, failAt, users, logs) ==
    IF failAt \in {"createSocket", "getInfo", "getUsers", "getAttendances"}
    THEN OfflineResult(ip, SessionError)
    ELSE IF \E i \in 1..Len(logs) : ToISOStringThrows(logs[i].recordTime)
    THEN OfflineResult(ip, RangeError)
    ELSE IF failAt = "disconnect"
    THEN OfflineResult(ip, SessionError)
    ELSE [info |-> ip,
          allUsers |-> users,
          adminUsers |-> SeqFilter(users, {u \in Range(users) : u.role = AdminRole}),
          attendanceLogs |-> [i \in 1..Len(logs) |-> EnhanceLog(logs[i], ip, users)],
          deviceIP |-> ip,
          status |-> "online"]

\* ------------------------------------------------------------ record store
\* A day file: absent, a JSON array of entries, JSON that is no array, or text
\* that is not JSON.
NoFile == [kind |-> "absent"]
JsonStringify(records) == [kind |-> "array", items |-> records]
FileItems(content) == IF content.kind = "array" THEN content.items ELSE <<>>

\* a null among the entries of a stored array
JsonNull == [null |-> TRUE]

\* item.deviceUserId && item.recordTime: both present and non-empty
WellFormed(item) ==
    /\ "deviceUserId" \in DOMAIN item
    /\ item.deviceUserId # ""
    /\ "recordTime" \in DOMAIN item
    /\ item.recordTime # ""

RECURSIVE LoadItems_PushAll(_, _, _)
\* a load that pushes every well-formed item, known signature or not
LoadItems_PushAll(items, records, signatures) ==
    IF items = <<>> THEN [records |-> records, signatures |-> signatures]
    ELSE LET item == Head(items)
             sig == createRecordSignature(item)
         IN  IF WellFormed(item)
             THEN LoadItems_PushAll(Tail(items), Append(records, item),
                                    signatures \cup {sig})
             ELSE LoadItems_PushAll(Tail(items), records, signatures)

RECURSIVE LoadItems(_, _, _)
\* data.forEach of loadExistingRecords: skip malformed items, keep the first
\* item of every signature
LoadItems(items, records, signatures) ==
    IF items = <<>> THEN [records |-> records, signatures |-> signatures]
    ELSE LET item == Head(items)
             sig == createRecordSignature(item)
         IN  IF WellFormed(item) /\ sig \notin signatures
             THEN LoadItems(Tail(items), Append(records, item), signatures \cup {sig})
             ELSE LoadItems(Tail(items), records, signatures)

\* loadExistingRecords on the content of today's file: the record list and the
\* signature set it leaves (both empty when the file is absent, unreadable,
\* not JSON or not an array, and when reading a property of a null entry
\* throws: the catch clears both)
loadExistingRecords(content) ==
    IF content.kind = "array" /\ JsonNull \notin Range(content.items)
    THEN LoadItems(content.items, <<>>, {})
    ELSE [records |-> <<>>, signatures |-> {}]

\* saveRecords writing the list as it was before the last push
saveRecords_Stale(fs, day, records, writeOk) ==
    IF writeOk
    THEN [fs EXCEPT ![day] = JsonStringify(SubSeq(records, 1, Len(records) - 1))]
    ELSE fs

\* saveRecords with the day stamp taken once, when the process started
saveRecords_FirstDay(fs, day, records, writeOk) ==
    IF writeOk THEN [fs EXCEPT ![1] = JsonStringify(records)] ELSE fs

\* saveRecords: today's file after the call; writeOk = FALSE is a write that
\* throws (the catch logs it and the file stays as it was)
saveRecords(fs, day, records, writeOk) ==
    IF writeOk THEN [fs EXCEPT ![day] = JsonStringify(records)] ELSE fs

\* ------------------------------------------------------------------ cycle
Pending == [status |-> "pending"]
Fulfilled(v) == [status |-> "fulfilled", value |-> v]

RECURSIVE AcceptRecords_NoCheck(_, _)
\* the accept loop without the uniqueSignatures.has test
AcceptRecords_NoCheck(logs, acc) ==
    IF logs = <<>> THEN acc
    ELSE AcceptRecords_NoCheck(Tail(logs),
             [records |-> Append(acc.records, Head(logs)),
              signatures |-> acc.signatures \cup {createRecordSignature(Head(logs))},
              count |-> acc.count + 1])

RECURSIVE AcceptRecords_NoAdd(_, _)
\* the accept loop without the uniqueSignatures.add
AcceptRecords_NoAdd(logs, acc) ==
    IF logs = <<>> THEN acc
    ELSE IF createRecordSignature(Head(logs)) \notin acc.signatures
         THEN AcceptRecords_NoAdd(Tail(logs),
                  [records |-> Append(acc.records, Head(logs)),
                   signatures |-> acc.signatures,
                   count |-> acc.count + 1])
         ELSE AcceptRecords_NoAdd(Tail(logs), acc)

RECURSIVE AcceptRecords_CountAll(_, _)
\* the accept loop counting every log it is served, pushed or not
AcceptRecords_CountAll(logs, acc) ==
    IF logs = <<>> THEN acc
    ELSE LET record == Head(logs)
             sig == createRecordSignature(record)
         IN  IF sig \notin acc.signatures
             THEN AcceptRecords_CountAll(Tail(logs),
                      [records |-> Append(acc.records, record),
                       signatures |-> acc.signatures \cup {sig},
                       count |-> acc.count + 1])
             ELSE AcceptRecords_CountAll(Tail(logs),
                      [acc EXCEPT !.count = acc.count + 1])

RECURSIVE AcceptRecords(_, _)
\* deviceData.attendanceLogs.forEach: acc is [records, signatures, count]
AcceptRecords(logs, acc) ==
    IF logs = <<>> THEN acc
    ELSE LET record == Head(logs)
             sig == createRecordSignature(record)
         IN  IF sig \notin acc.signatures
             THEN AcceptRecords(Tail(logs),
                      [records |-> Append(acc.records, record),
                       signatures |-> acc.signatures \cup {sig},
                       count |-> acc.count + 1])
             ELSE AcceptRecords(Tail(logs), acc)

RECURSIVE AcceptAll(_, _, _)
\* results.forEach over the terminals from index i on: the accept loop of every
\* fulfilled result, in terminal order
AcceptAll(results, i, acc) ==
    IF i > Len(devices) THEN acc
    ELSE LET result == results[devices[i]]
         IN  IF result.status = "fulfilled"
             THEN AcceptAll(results, i + 1,
                            AcceptRecords(result.value.attendanceLogs, acc))
             ELSE AcceptAll(results, i + 1, acc)

\* currentBatchData[ip]: the fetch result itself, or an offline entry built
\* from the rejection
DeviceEntry(result, ip) ==
    IF result.status = "fulfilled" THEN result.value
    ELSE OfflineResult(ip, result.reason)

RECURSIVE Combine(_, _, _)
\* combinedLogs / combinedAllUsers / combinedAdminUsers: field f of every
\* fulfilled result, concatenated in terminal order
Combine(results, i, f) ==
    IF i > Len(devices) THEN <<>>
    ELSE LET result == results[devices[i]]
         IN  (IF result.status = "fulfilled" THEN result.value[f] ELSE <<>>)
                 \o Combine(results, i + 1, f)

\* [...new Map(users.map(u => [u.userId, u])).values()]: one entry per userId,
\* at the place of its first occurrence, holding its last occurrence
UniqueByUserId(users) ==
    LET first(i) == \A j \in 1..(i - 1) : users[j].userId # users[i].userId
        lastOf(i) == CHOOSE k \in 1..Len(users) :
                        /\ users[k].userId = users[i].userId
                        /\ \A j \in (k + 1)..Len(users) : users[j].userId # users[i].userId
        firsts == SeqFilter([i \in 1..Len(users) |-> i],
                            {i \in 1..Len(users) : first(i)})
    IN  [n \in 1..Len(firsts) |-> users[lastOf(firsts[n])]]

CombinedEntry(results) ==
    [info |-> [type |-> "Combined View",
               userCounts |-> Len(Combine(results, 1, "allUsers")),
               logCount |-> Len(Combine(results, 1, "attendanceLogs"))],
     allUsers |-> UniqueByUserId(Combine(results, 1, "allUsers")),
     adminUsers |-> UniqueByUserId(Combine(results, 1, "adminUsers")),
     attendanceLogs |-> Combine(results, 1, "attendanceLogs"),
     deviceIP |-> "Multiple Devices",
     status |-> "online"]

\* currentBatchData once the forEach and the combined view are done
BuildBatchData(results) ==
    [k \in DeviceSet \cup {"combined"} |->
        IF k = "combined" THEN CombinedEntry(results)
        ELSE DeviceEntry(results[k], k)]

\* the value latestDeviceData is declared with
InitialDeviceData ==
    [ip \in DeviceSet |->
        [info |-> "none", allUsers |-> <<>>, adminUsers |-> <<>>,
         attendanceLogs |-> <<>>, deviceIP |-> ip, status |-> "initializing"]]

\* ------------------------------------------------------------------ state
VARIABLES
    allAttendanceRecords,   \* the accepted record list
    uniqueSignatures,       \* the set of known signatures
    latestDeviceData,       \* the snapshot the read routes serve
    files,                  \* the data directory: day -> file content
    today,                  \* the current UTC day
    buffer,                 \* terminal -> the raw logs it holds (served in full)
    started,                \* cycles started so far
    pc,                     \* cycle -> "idle", "fetching", "forwarding" or "done"
    results,                \* cycle -> terminal -> settled fetch result or Pending
    newRecordsCount,        \* cycle -> its local newRecordsCount
    currentBatchData,       \* cycle -> its local currentBatchData
    batch,                  \* cycle -> the records of its POST in flight
    returned,               \* the value the last finished cycle returned
    apiLog,                 \* what the last cycle to log about sending logged
    saveFailed,             \* whether the last processing step logged a save error
    restarts,               \* process restarts so far
    handed,                 \* every signature handed to sendToCSharpAPI by this process, in order
    publisher,              \* the in-flight cycle that assigned latestDeviceData, 0 if it returned
    session,                \* one fetchDeviceData call followed await by await
    call,                   \* one function of the service and the arguments it is called with
    ret                     \* what that call left: its value and the state it wrote

vars == <<allAttendanceRecords, uniqueSignatures, latestDeviceData, files, today,
          buffer, started, pc, results, newRecordsCount, currentBatchData, batch,
          returned, apiLog, saveFailed, restarts, handed,
          publisher, session, call, ret>>

\* the variables of the running service, and those of a single call looked at
\* on its own
pipeline == <<allAttendanceRecords, uniqueSignatures, latestDeviceData, files, today,
              buffer, started, pc, results, newRecordsCount, currentBatchData, batch,
              returned, apiLog, saveFailed, restarts, handed, publisher>>
single == <<session, call, ret>>

memory == <<allAttendanceRecords, uniqueSignatures, latestDeviceData>>
cycleLocals == <<pc, results, newRecordsCount, currentBatchData, batch>>
logs == <<returned, apiLog, saveFailed>>

NoBatchData == [none |-> TRUE]
NoReturn == [none |-> TRUE]
NoSession == [at |-> "none"]
NoCall == [fn |-> "none"]

\* Entries an earlier process or an outside edit may have left in today's file:
\* one event, the same event again with its time in another form, and an
\* entry without a record time.
StoredEntries ==
    <<[userSn |-> 1, deviceUserId |-> "7", name |-> "Alice", type |-> "IN",
       deviceIP |-> DeviceIN, recordTime |-> "2024-01-01T08:00:00.000Z"],
      [userSn |-> 2, deviceUserId |-> "7", name |-> "Alice", type |-> "IN",
       deviceIP |-> DeviceIN, recordTime |-> "2024-01-01 08:00:00"],
      [userSn |-> 5, deviceUserId |-> "8", name |-> "Unknown", type |-> "OUT",
       deviceIP |-> DeviceOUT, recordTime |-> ""]>>

InitialFiles == {NoFile, JsonStringify(StoredEntries)}

\* The state of a process that has just run its top-level code: globals
\* declared, loadExistingRecords() done, timer armed, no cycle started.
Startup(fs, day) ==
    LET loaded == loadExistingRecords(fs[day])
    IN  /\ allAttendanceRecords' = loaded.records
        /\ uniqueSignatures' = loaded.signatures
        /\ latestDeviceData' = InitialDeviceData
        /\ pc' = [c \in Cycles |-> "idle"]
        /\ results' = [c \in Cycles |-> [ip \in DeviceSet |-> Pending]]
        /\ newRecordsCount' = [c \in Cycles |-> 0]
        /\ currentBatchData' = [c \in Cycles |-> NoBatchData]
        /\ batch' = [c \in Cycles |-> <<>>]
        /\ returned' = NoReturn
        /\ apiLog' = "none"
        /\ saveFailed' = FALSE
        /\ handed' = <<>>
        /\ publisher' = 0

Init ==
    /\ today = 1
    /\ \E f \in InitialFiles : files = [d \in Days |-> IF d = 1 THEN f ELSE NoFile]
    /\ buffer = [ip \in DeviceSet |-> <<>>]
    /\ restarts = 0
    /\ LET loaded == loadExistingRecords(files[today])
       IN  /\ allAttendanceRecords = loaded.records
           /\ uniqueSignatures = loaded.signatures
    /\ latestDeviceData = InitialDeviceData
    /\ started = 0
    /\ pc = [c \in Cycles |-> "idle"]
    /\ results = [c \in Cycles |-> [ip \in DeviceSet |-> Pending]]
    /\ newRecordsCount = [c \in Cycles |-> 0]
    /\ currentBatchData = [c \in Cycles |-> NoBatchData]
    /\ batch = [c \in Cycles |-> <<>>]
    /\ returned = NoReturn
    /\ apiLog = "none"
    /\ saveFailed = FALSE
    /\ handed = <<>>
    /\ publisher = 0
    /\ session = NoSession
    /\ call = NoCall
    /\ ret = NoReturn

\* ---------------------------------------------------------------- actions
InFlight == {c \in Cycles : pc[c] \in {"fetching", "forwarding"}}

\* fetchAndSendToAPI() is called: both fetches are launched and the caller
\* waits.  Nothing in the function looks at whether another call is in flight.
StartCycle(c) ==
    /\ c = started + 1
    /\ started' = c
    /\ pc' = [pc EXCEPT ![c] = "fetching"]
    /\ results' = [results EXCEPT ![c] = [ip \in DeviceSet |-> Pending]]
    /\ UNCHANGED <<memory, files, today, buffer, newRecordsCount, currentBatchData,
                   batch, logs, restarts, handed, publisher, single>>

\* The entry points.  Each awaits fetchAndSendToAPI() and tests nothing first.
\* the cron job fires (every 30 minutes)
CronTick == \E c \in Cycles : StartCycle(c)

\* a request to /api/trigger-sync arrives
TriggerSync == \E c \in Cycles : StartCycle(c)

\* a request to /api/force-sync arrives
ForceSync == \E c \in Cycles : StartCycle(c)

\* the startup timer fires, 2 s after the top-level code has run
InitialSync ==
    /\ \A d \in Cycles : pc[d] = "idle"
    /\ \E c \in Cycles : StartCycle(c)

\* fetchDeviceData(ip) of cycle c settles
FetchDevice(c, ip) ==
    /\ pc[c] = "fetching"
    /\ results[c][ip] = Pending
    /\ \E failAt \in FailPoints \cup {"none"} :
          results' = [results EXCEPT ![c][ip] =
                         Fulfilled(fetchDeviceData(ip, failAt, UserTable(ip), buffer[ip]))]
    /\ UNCHANGED <<memory, files, today, buffer, started, pc, newRecordsCount,
                   currentBatchData, batch, logs, restarts,
                   handed, publisher, single>>

\* an assignment that keeps the previous entry of a terminal found offline
PublishSnapshot_KeepLastGood(old, data) ==
    [k \in DOMAIN data |->
        IF k \in DOMAIN old /\ data[k].status = "offline" THEN old[k] ELSE data[k]]

\* latestDeviceData = currentBatchData: the whole object is replaced
PublishSnapshot(old, data) == data

\* what fetchAndSendToAPI returns
CycleResult(deviceData, combinedData, count, total) ==
    [deviceData |-> deviceData, combinedData |-> combinedData,
     newRecordsCount |-> count, totalRecords |-> total, apiSent |-> count > 0]

\* a processing step that writes the list also when nothing is new
ProcessResults_AlwaysSave(c) ==
    /\ pc[c] = "fetching"
    /\ \A ip \in DeviceSet : results[c][ip] # Pending
    /\ LET acc == AcceptAll(results[c], 1,
                      [records |-> allAttendanceRecords,
                       signatures |-> uniqueSignatures, count |-> 0])
           data == BuildBatchData(results[c])
       IN  /\ allAttendanceRecords' = acc.records
           /\ uniqueSignatures' = acc.signatures
           /\ latestDeviceData' = PublishSnapshot(latestDeviceData, data)
           /\ results' = [results EXCEPT ![c] = [ip \in DeviceSet |-> Pending]]
           /\ IF acc.count > 0
              THEN /\ \E writeOk \in BOOLEAN :
                         /\ files' = saveRecords(files, today, acc.records, writeOk)
                         /\ saveFailed' = ~writeOk
                   /\ batch' = [batch EXCEPT ![c] = SliceLast(acc.records, acc.count)]
                   /\ handed' = handed \o [i \in 1..Len(batch'[c]) |->
                                              createRecordSignature(batch'[c][i])]
                   /\ newRecordsCount' = [newRecordsCount EXCEPT ![c] = acc.count]
                   /\ currentBatchData' = [currentBatchData EXCEPT ![c] = data]
                   /\ pc' = [pc EXCEPT ![c] = "forwarding"]
                   /\ publisher' = c
                   /\ UNCHANGED <<returned, apiLog>>
              ELSE /\ returned' = CycleResult(data, data["combined"], 0, Len(acc.records))
                   /\ pc' = [pc EXCEPT ![c] = "done"]
                   /\ publisher' = 0
                   /\ apiLog' = "Nothing to send"
                   /\ saveFailed' = FALSE
                   /\ files' = saveRecords(files, today, acc.records, TRUE)
                   /\ UNCHANGED <<batch, handed, newRecordsCount,
                                  currentBatchData>>
    /\ UNCHANGED <<today, buffer, started, restarts, single>>

\* a processing step whose save lets the write error escape to the outer catch
ProcessResults_SaveThrows(c) ==
    /\ pc[c] = "fetching"
    /\ \A ip \in DeviceSet : results[c][ip] # Pending
    /\ LET acc == AcceptAll(results[c], 1,
                      [records |-> allAttendanceRecords,
                       signatures |-> uniqueSignatures, count |-> 0])
           data == BuildBatchData(results[c])
       IN  /\ allAttendanceRecords' = acc.records
           /\ uniqueSignatures' = acc.signatures
           /\ latestDeviceData' = PublishSnapshot(latestDeviceData, data)
           /\ results' = [results EXCEPT ![c] = [ip \in DeviceSet |-> Pending]]
           /\ IF acc.count > 0
              THEN \E writeOk \in BOOLEAN :
                      /\ files' = saveRecords(files, today, acc.records, writeOk)
                      /\ saveFailed' = ~writeOk
                      /\ IF writeOk
                         THEN /\ batch' = [batch EXCEPT
                                              ![c] = SliceLast(acc.records, acc.count)]
                              /\ handed' = handed \o [i \in 1..Len(batch'[c]) |->
                                                createRecordSignature(batch'[c][i])]
                              /\ newRecordsCount' = [newRecordsCount EXCEPT ![c] = acc.count]
                              /\ currentBatchData' = [currentBatchData EXCEPT ![c] = data]
                              /\ pc' = [pc EXCEPT ![c] = "forwarding"]
                              /\ publisher' = c
                              /\ UNCHANGED <<returned, apiLog>>
                         ELSE /\ returned' = [error |-> "EACCES"]
                              /\ pc' = [pc EXCEPT ![c] = "done"]
                              /\ publisher' = 0
                              /\ UNCHANGED <<apiLog, batch, handed, newRecordsCount,
                                             currentBatchData>>
              ELSE /\ returned' = CycleResult(data, data["combined"], 0, Len(acc.records))
                   /\ pc' = [pc EXCEPT ![c] = "done"]
                   /\ publisher' = 0
                   /\ apiLog' = "Nothing to send"
                   /\ saveFailed' = FALSE
                   /\ UNCHANGED <<files, batch, handed, newRecordsCount,
                                  currentBatchData>>
    /\ UNCHANGED <<today, buffer, started, restarts, single>>

\* Promise.allSettled has resolved: the synchronous stretch up to the await of
\* sendToCSharpAPI (new records) or up to the return (none)
ProcessResults(c) ==
    /\ pc[c] = "fetching"
    /\ \A ip \in DeviceSet : results[c][ip] # Pending
    /\ LET acc == AcceptAll(results[c], 1,
                      [records |-> allAttendanceRecords,
                       signatures |-> uniqueSignatures, count |-> 0])
           data == BuildBatchData(results[c])
       IN  /\ allAttendanceRecords' = acc.records
           /\ uniqueSignatures' = acc.signatures
           /\ latestDeviceData' = PublishSnapshot(latestDeviceData, data)
           /\ results' = [results EXCEPT ![c] = [ip \in DeviceSet |-> Pending]]
           /\ IF acc.count > 0
              THEN /\ \E writeOk \in BOOLEAN :
                         /\ files' = saveRecords(files, today, acc.records, writeOk)
                         /\ saveFailed' = ~writeOk
                   /\ batch' = [batch EXCEPT ![c] = SliceLast(acc.records, acc.count)]
                   /\ handed' = handed \o [i \in 1..Len(batch'[c]) |->
                                              createRecordSignature(batch'[c][i])]
                   /\ newRecordsCount' = [newRecordsCount EXCEPT ![c] = acc.count]
                   /\ currentBatchData' = [currentBatchData EXCEPT ![c] = data]
                   /\ pc' = [pc EXCEPT ![c] = "forwarding"]
                   /\ publisher' = c
                   /\ UNCHANGED <<returned, apiLog>>
              ELSE /\ returned' = CycleResult(data, data["combined"], 0, Len(acc.records))
                   /\ pc' = [pc EXCEPT ![c] = "done"]
                   /\ publisher' = 0
                   /\ apiLog' = "Nothing to send"
                   /\ saveFailed' = FALSE
                   /\ UNCHANGED <<files, batch, handed, newRecordsCount,
                                  currentBatchData>>
    /\ UNCHANGED <<today, buffer, started, restarts, single>>

\* a return whose apiSent tells whether the POST succeeded
FinishCycle_ReportsOutcome(c, sendResult) ==
    /\ pc[c] = "forwarding"
    /\ apiLog' = sendResult
    /\ returned' = [CycleResult(latestDeviceData, currentBatchData[c]["combined"],
                                newRecordsCount[c], Len(allAttendanceRecords))
                        EXCEPT !.apiSent = (sendResult = "Success")]
    /\ pc' = [pc EXCEPT ![c] = "done"]
    /\ batch' = [batch EXCEPT ![c] = <<>>]
    /\ newRecordsCount' = [newRecordsCount EXCEPT ![c] = 0]
    /\ currentBatchData' = [currentBatchData EXCEPT ![c] = NoBatchData]
    /\ publisher' = IF publisher = c THEN 0 ELSE publisher
    /\ UNCHANGED <<memory, files, today, buffer, started, results, saveFailed,
                   restarts, handed, single>>

\* the rest of fetchAndSendToAPI once sendToCSharpAPI has resolved
FinishCycle(c, sendResult) ==
    /\ pc[c] = "forwarding"
    /\ apiLog' = sendResult
    /\ returned' = CycleResult(latestDeviceData, currentBatchData[c]["combined"],
                               newRecordsCount[c], Len(allAttendanceRecords))
    /\ pc' = [pc EXCEPT ![c] = "done"]
    /\ batch' = [batch EXCEPT ![c] = <<>>]
    /\ newRecordsCount' = [newRecordsCount EXCEPT ![c] = 0]
    /\ currentBatchData' = [currentBatchData EXCEPT ![c] = NoBatchData]
    /\ publisher' = IF publisher = c THEN 0 ELSE publisher
    /\ UNCHANGED <<memory, files, today, buffer, started, results, saveFailed,
                   restarts, handed, single>>

\* the POST is answered 2xx: sendToCSharpAPI resolves { success: true }
ForwardSuccess(c) == FinishCycle(c, "Success")

\* a failure branch that takes the unsent records back out of the list and the set
ForwardFailure_Rollback(c) ==
    /\ pc[c] = "forwarding"
    /\ apiLog' = "Failed"
    /\ allAttendanceRecords' = SubSeq(allAttendanceRecords, 1,
                                      Len(allAttendanceRecords) - newRecordsCount[c])
    /\ uniqueSignatures' = Signatures(allAttendanceRecords')
    /\ returned' = CycleResult(latestDeviceData, currentBatchData[c]["combined"],
                               newRecordsCount[c], Len(allAttendanceRecords'))
    /\ pc' = [pc EXCEPT ![c] = "done"]
    /\ batch' = [batch EXCEPT ![c] = <<>>]
    /\ newRecordsCount' = [newRecordsCount EXCEPT ![c] = 0]
    /\ currentBatchData' = [currentBatchData EXCEPT ![c] = NoBatchData]
    /\ publisher' = IF publisher = c THEN 0 ELSE publisher
    /\ UNCHANGED <<latestDeviceData, files, today, buffer, started, results,
                   saveFailed, restarts, handed, single>>

\* the POST fails (no answer, non-2xx): the catch of sendToCSharpAPI resolves
\* { success: false }
ForwardFailure(c) == FinishCycle(c, "Failed")

\* a terminal records one more attendance event (what a terminal records
\* matters only to the next read of it, so events arrive while a read is due)
DeviceAppend(ip) ==
    /\ \E c \in Cycles : pc[c] = "fetching" /\ results[c][ip] = Pending
    /\ Len(buffer[ip]) < MaxBuf
    /\ \E log \in RawLogPool(ip) \ Range(buffer[ip]) :
          buffer' = [buffer EXCEPT ![ip] = Append(@, log)]
    /\ UNCHANGED <<memory, files, today, started, cycleLocals, logs,
                   restarts, handed, publisher, single>>

\* midnight UTC passes
DayRollover ==
    /\ today < MaxDay
    /\ today' = today + 1
    /\ UNCHANGED <<memory, files, buffer, started, cycleLocals, logs,
                   restarts, handed, publisher, single>>

\* the process is stopped and started again: the top-level code runs anew
\* (a cycle in flight would be lost; what a restart leaves depends on the
\* files alone, so the model restarts between cycles)
Restart ==
    /\ restarts < MaxRestarts
    /\ InFlight = {}
    /\ restarts' = restarts + 1
    /\ Startup(files, today)
    /\ UNCHANGED <<files, today, buffer, started, single>>

Next ==
    \/ CronTick
    \/ TriggerSync
    \/ ForceSync
    \/ InitialSync
    \/ \E c \in Cycles, ip \in DeviceSet : FetchDevice(c, ip)
    \/ \E c \in Cycles : ProcessResults(c)
    \/ \E c \in Cycles : ForwardSuccess(c)
    \/ \E c \in Cycles : ForwardFailure(c)
    \/ \E ip \in DeviceSet : DeviceAppend(ip)
    \/ DayRollover
    \/ Restart

Spec == Init /\ [][Next]_vars

\* ------------------------------------------------- the timer, tick after tick
\* The cron job fires again and again for as long as the process lives: a tick
\* that finds no cycle in flight starts one, in the place of the finished one.
CronTickAgain ==
    /\ InFlight = {}
    /\ pc' = [pc EXCEPT ![1] = "fetching"]
    /\ results' = [results EXCEPT ![1] = [ip \in DeviceSet |-> Pending]]
    /\ UNCHANGED <<memory, files, today, buffer, started, newRecordsCount,
                   currentBatchData, batch, logs, restarts, handed, publisher, single>>

NextTicking ==
    \/ CronTickAgain
    \/ \E c \in Cycles, ip \in DeviceSet : FetchDevice(c, ip)
    \/ \E c \in Cycles : ProcessResults(c)
    \/ \E c \in Cycles : ForwardSuccess(c)
    \/ \E c \in Cycles : ForwardFailure(c)
    \/ \E ip \in DeviceSet : DeviceAppend(ip)

\* The timer keeps firing, every SDK call and every POST settles, the code
\* that is ready to run runs, no terminal stays unreachable for ever and the
\* disk does not fail for ever.
FairTicking ==
    /\ WF_vars(CronTickAgain)
    /\ \A ip \in DeviceSet : WF_vars(FetchDevice(1, ip))
    /\ \A ip \in DeviceSet :
          SF_vars(FetchDevice(1, ip) /\ results'[1][ip].value.status = "online")
    /\ WF_vars(ProcessResults(1))
    /\ SF_vars(ProcessResults(1) /\ ~saveFailed')
    /\ WF_vars(ForwardSuccess(1) \/ ForwardFailure(1))

SpecTicking == Init /\ [][NextTicking]_vars /\ FairTicking

\* ------------------------------------------------- peers that never answer
\* The peers of a cycle's network operations: the two terminals and the
\* collector the batch is posted to.  call.silent names those that accept
\* nothing or never reply for the whole run.
Collector == "collector"
Peers == DeviceSet \cup {Collector}

\* what each terminal holds when the service starts: one attendance event
HeldAtStart(ip) == <<CHOOSE log \in RawLogPool(ip) : log.userSn \in {1, 3}>>

\* a fresh service (no file, nothing loaded, no cycle started) whose terminals
\* hold one event each
FreshService ==
    /\ today = 1
    /\ files = [d \in Days |-> NoFile]
    /\ buffer = [ip \in DeviceSet |-> HeldAtStart(ip)]
    /\ restarts = 0
    /\ allAttendanceRecords = <<>>
    /\ uniqueSignatures = {}
    /\ latestDeviceData = InitialDeviceData
    /\ started = 0
    /\ pc = [c \in Cycles |-> "idle"]
    /\ results = [c \in Cycles |-> [ip \in DeviceSet |-> Pending]]
    /\ newRecordsCount = [c \in Cycles |-> 0]
    /\ currentBatchData = [c \in Cycles |-> NoBatchData]
    /\ batch = [c \in Cycles |-> <<>>]
    /\ returned = NoReturn
    /\ apiLog = "none"
    /\ saveFailed = FALSE
    /\ handed = <<>>
    /\ publisher = 0

\* a fresh service, some of whose peers are silent
InitNetwork ==
    /\ FreshService
    /\ session = NoSession
    /\ ret = NoReturn
    /\ \E silent \in SUBSET Peers : call = [fn |-> "network", silent |-> silent]

\* the cron job fires, whatever the earlier calls of fetchAndSendToAPI are
\* doing: the new call takes a place no call in flight holds
CronTickAnySlot ==
    /\ \E c \in Cycles :
          /\ pc[c] \in {"idle", "done"}
          /\ pc' = [pc EXCEPT ![c] = "fetching"]
          /\ results' = [results EXCEPT ![c] = [ip \in DeviceSet |-> Pending]]
    /\ UNCHANGED <<memory, files, today, buffer, started, newRecordsCount,
                   currentBatchData, batch, logs, restarts, handed, publisher, single>>

\* a terminal that answers every call of the session: its fetch resolves to
\* the online result
FetchAnswered(c, ip) ==
    /\ ip \notin call.silent
    /\ pc[c] = "fetching"
    /\ results[c][ip] = Pending
    /\ results' = [results EXCEPT ![c][ip] =
                      Fulfilled(fetchDeviceData(ip, "none", UserTable(ip), buffer[ip]))]
    /\ UNCHANGED <<memory, files, today, buffer, started, pc, newRecordsCount,
                   currentBatchData, batch, logs, restarts,
                   handed, publisher, single>>

\* a terminal that does not answer: the awaited createSocket() rejects when
\* the timeout handed to new ZKLib(ip, 4370, 5000, 4000) runs out, and the
\* catch block resolves the fetch to the offline result
FetchTimedOut(c, ip) ==
    /\ ip \in call.silent
    /\ pc[c] = "fetching"
    /\ results[c][ip] = Pending
    /\ results' = [results EXCEPT ![c][ip] =
                      Fulfilled(fetchDeviceData(ip, "createSocket", UserTable(ip),
                                                buffer[ip]))]
    /\ UNCHANGED <<memory, files, today, buffer, started, pc, newRecordsCount,
                   currentBatchData, batch, logs, restarts,
                   handed, publisher, single>>

\* a collector that answers (2xx, non-2xx or a refused connection): the POST
\* settles.  axios.post is called without a timeout option, so for a collector
\* that never answers nothing settles the POST: there is no such action.
PostAnswered(c) ==
    /\ Collector \notin call.silent
    /\ (ForwardSuccess(c) \/ ForwardFailure(c))

NextNetwork ==
    \/ CronTickAnySlot
    \/ \E c \in Cycles, ip \in DeviceSet : FetchAnswered(c, ip)
    \/ \E c \in Cycles, ip \in DeviceSet : FetchTimedOut(c, ip)
    \/ \E c \in Cycles : ProcessResults(c)
    \/ \E c \in Cycles : PostAnswered(c)

\* whatever cycle c does next: one of its fetches settles, its processing step
\* runs, or its answered POST settles
CycleStep(c) ==
    \/ \E ip \in DeviceSet : FetchAnswered(c, ip) \/ FetchTimedOut(c, ip)
    \/ ProcessResults(c)
    \/ PostAnswered(c)

\* The timer keeps firing, every SDK call settles (by an answer or by the
\* SDK's timeout), an answered POST settles, and the code that is ready to run
\* runs: no cycle that can take a step waits for ever.
FairNetwork ==
    /\ WF_vars(CronTickAnySlot)
    /\ \A c \in Cycles : WF_vars(CycleStep(c))

SpecNetwork == InitNetwork /\ [][NextNetwork]_vars /\ FairNetwork

\* ------------------------------------------------------- the service at rest
\* The running service with nothing going on, as it stands while a single call
\* is looked at on its own.
PipelineAtRest ==
    /\ today = 1
    /\ files = [d \in Days |-> NoFile]
    /\ buffer = [ip \in DeviceSet |-> <<>>]
    /\ restarts = 0
    /\ allAttendanceRecords = <<>>
    /\ uniqueSignatures = {}
    /\ latestDeviceData = InitialDeviceData
    /\ started = 0
    /\ pc = [c \in Cycles |-> "idle"]
    /\ results = [c \in Cycles |-> [ip \in DeviceSet |-> Pending]]
    /\ newRecordsCount = [c \in Cycles |-> 0]
    /\ currentBatchData = [c \in Cycles |-> NoBatchData]
    /\ batch = [c \in Cycles |-> <<>>]
    /\ returned = NoReturn
    /\ apiLog = "none"
    /\ saveFailed = FALSE
    /\ handed = <<>>
    /\ publisher = 0

\* sequences over S of length at most n
SeqsUpTo(S, n) == UNION {[1..k -> S] : k \in 0..n}

\* ------------------------------------------------- merging the user tables
\* User entries two terminals may report: one userId under three names and
\* two roles, and a second userId.
UserPool ==
    {[userId |-> "7", name |-> "Alice", role |-> 0],
     [userId |-> "7", name |-> "Alicia", role |-> AdminRole],
     [userId |-> "7", name |-> "Ali", role |-> AdminRole],
     [userId |-> "9", name |-> "Root", role |-> AdminRole]}

\* users.filter((user, index, self) => index === self.findIndex(u => u.userId
\* === user.userId)): the first entry of every userId, in order
FirstByUserId(users) ==
    LET first(i) == \A j \in 1..(i - 1) : users[j].userId # users[i].userId
        firsts == SeqFilter([i \in 1..Len(users) |-> i],
                            {i \in 1..Len(users) : first(i)})
    IN  [n \in 1..Len(firsts) |-> users[firsts[n]]]

\* combinedData of fetchAllDeviceData (the routes of the older server): the
\* lists of every fulfilled result concatenated, then the user lists filtered
fetchAllDeviceData(settled) ==
    [allUsers |-> FirstByUserId(Combine(settled, 1, "allUsers")),
     adminUsers |-> FirstByUserId(Combine(settled, 1, "adminUsers")),
     attendanceLogs |-> Combine(settled, 1, "attendanceLogs")]

\* what Promise.allSettled gives when both terminals answer with these tables
SettledWith(users) ==
    [ip \in DeviceSet |-> Fulfilled(fetchDeviceData(ip, "none", users[ip], <<>>))]

InitMerge ==
    /\ PipelineAtRest
    /\ session = NoSession
    /\ ret = NoReturn
    /\ \E users \in [DeviceSet -> SeqsUpTo(UserPool, MaxUsers)] :
          call = [fn |-> "merge", users |-> users]

\* the combined view as the cycle function builds it
MergeInCycle ==
    /\ call.fn = "merge"
    /\ ret = NoReturn
    /\ ret' = [by |-> "cycle", combined |-> CombinedEntry(SettledWith(call.users))]
    /\ UNCHANGED <<pipeline, session, call>>

\* the combined view as fetchAllDeviceData builds it
MergeInFetchAll ==
    /\ call.fn = "merge"
    /\ ret = NoReturn
    /\ ret' = [by |-> "fetchAllDeviceData",
               combined |-> fetchAllDeviceData(SettledWith(call.users))]
    /\ UNCHANGED <<pipeline, session, call>>

NextMerge == MergeInCycle \/ MergeInFetchAll

SpecMerge == InitMerge /\ [][NextMerge]_vars

\* ------------------------------------------------- one fetch, await by await
\* What a terminal may serve to a single fetch: a user table with repeated and
\* empty-named entries, and raw logs of which one carries no date.
FetchUserPool ==
    {[userId |-> "7", name |-> "Alice", role |-> 0],
     [userId |-> "7", name |-> "", role |-> 0],
     [userId |-> "9", name |-> "Root", role |-> AdminRole]}

FetchLogPool ==
    {[userSn |-> 1, deviceUserId |-> "7", recordTime |-> "2024-01-01 08:00:00"],
     [userSn |-> 3, deviceUserId |-> "8", recordTime |-> "2024-01-01T09:00:00.000Z"],
     [userSn |-> 6, deviceUserId |-> "9", recordTime |-> "garbage"]}

\* fetchDeviceData(ip) has been called: new ZKLib(...) is built and
\* createSocket() is awaited
InitFetch ==
    /\ PipelineAtRest
    /\ call = NoCall
    /\ ret = NoReturn
    /\ \E ip \in DeviceSet, users \in SeqsUpTo(FetchUserPool, MaxUsers),
          served \in SeqsUpTo(FetchLogPool, MaxBuf) :
          session = [ip |-> ip, users |-> users, logs |-> served,
                     at |-> "createSocket", opened |-> FALSE,
                     disconnectCalled |-> FALSE, failedAt |-> "none",
                     result |-> NoReturn]

\* a catch block that hands back what had been read before the failure
Thrown_PartialData(s, step) ==
    [s EXCEPT !.at = "returned", !.failedAt = step,
              !.result = [fetchDeviceData(s.ip, step, s.users, s.logs)
                              EXCEPT !.allUsers =
                                  IF step \in {"createSocket", "getInfo", "getUsers"}
                                  THEN <<>> ELSE s.users]]

\* the catch block: the fetch resolves to the offline result, nothing else is done
Thrown(s, step) ==
    [s EXCEPT !.at = "returned", !.failedAt = step,
              !.result = fetchDeviceData(s.ip, step, s.users, s.logs)]

\* the awaited SDK call resolves and the code runs on to the next await (or to
\* the return)
SdkResolves ==
    /\ session.at \in FailPoints
    /\ session' =
          CASE session.at = "createSocket" ->
                  [session EXCEPT !.at = "getInfo", !.opened = TRUE]
            [] session.at = "getInfo" -> [session EXCEPT !.at = "getUsers"]
            [] session.at = "getUsers" -> [session EXCEPT !.at = "getAttendances"]
            [] session.at = "getAttendances" ->
                  IF \E i \in 1..Len(session.logs) :
                        ToISOStringThrows(session.logs[i].recordTime)
                  THEN Thrown(session, "none")
                  ELSE [session EXCEPT !.at = "disconnect", !.disconnectCalled = TRUE]
            [] OTHER ->
                  [session EXCEPT !.at = "returned",
                      !.result = fetchDeviceData(session.ip, "none",
                                                 session.users, session.logs)]
    /\ UNCHANGED <<pipeline, call, ret>>

\* the awaited SDK call rejects (timeout, refused connection, protocol error)
SdkRejects ==
    /\ session.at \in FailPoints
    /\ session' = Thrown(session, session.at)
    /\ UNCHANGED <<pipeline, call, ret>>

NextFetch == SdkResolves \/ SdkRejects

SpecFetch == InitFetch /\ [][NextFetch]_vars

\* ------------------------------------------------- load and save on their own
\* Records a day file or the list may hold.
RecordA ==
    [userSn |-> 1, deviceUserId |-> "7", name |-> "Alice", type |-> "IN",
     deviceIP |-> DeviceIN, recordTime |-> "2024-01-01T08:00:00.000Z"]
RecordB ==
    [userSn |-> 3, deviceUserId |-> "8", name |-> "Unknown", type |-> "OUT",
     deviceIP |-> DeviceOUT, recordTime |-> "2024-01-01T09:00:00.000Z"]
RecordC ==
    [userSn |-> 7, deviceUserId |-> "7", name |-> "Alice", type |-> "IN",
     deviceIP |-> DeviceIN, recordTime |-> "2024-01-01T09:00:00.000Z"]
ValidRecords == {RecordA, RecordB, RecordC}

\* What else an edited or damaged file may hold in its array: RecordA again
\* with its time written differently, an entry without recordTime, one with an
\* empty deviceUserId, and a null.
StoreEntryPool ==
    {RecordA, RecordB,
     [RecordA EXCEPT !.userSn = 2, !.recordTime = "2024-01-01 08:00:00"],
     [userSn |-> 5, deviceUserId |-> "8", name |-> "Unknown", type |-> "OUT",
      deviceIP |-> DeviceOUT],
     [userSn |-> 4, deviceUserId |-> "", name |-> "Unknown", type |-> "IN",
      deviceIP |-> DeviceIN, recordTime |-> "2024-01-01T09:00:00.000Z"],
     JsonNull}

\* a file that cannot be read, one that is not JSON, one whose JSON is no array
Unreadable == [kind |-> "unreadable"]
InvalidJson == [kind |-> "invalid"]
JsonObject == [kind |-> "object"]

LoadContents ==
    {NoFile, Unreadable, InvalidJson, JsonObject}
        \cup {JsonStringify(items) : items \in SeqsUpTo(StoreEntryPool, MaxStored)}

\* record lists without a repeated signature
RecordLists == {l \in SeqsUpTo(ValidRecords, MaxStored) : NoDuplicateSignature(l)}

\* the entry saveNewRecords of the batch-entry variant appends to the file
BatchEntry(newRecords) ==
    [timestamp |-> "now", newRecordsCount |-> Len(newRecords),
     attendanceLogs |-> newRecords]

\* saveNewRecords(newRecords) of the batch-entry variant: the file and the list
\* it leaves.  The file's entries are read first (none when the file is absent,
\* unreadable or not JSON) and the new entry is pushed onto them; on JSON that
\* is no array push throws, and the catch leaves file and list as they were.
saveNewRecords(content, records, newRecords, writeOk) ==
    IF newRecords = <<>> \/ content.kind = "object" \/ ~writeOk
    THEN [file |-> content, records |-> records]
    ELSE [file |-> JsonStringify(Append(FileItems(content), BatchEntry(newRecords))),
          records |-> records \o newRecords]

BatchContents ==
    {NoFile, InvalidJson, JsonObject}
        \cup {JsonStringify(entries) :
                 entries \in SeqsUpTo({BatchEntry(<<r>>) : r \in {RecordA, RecordB}},
                                      MaxStored)}

InitStore ==
    /\ PipelineAtRest
    /\ session = NoSession
    /\ ret = NoReturn
    /\ \/ \E content \in LoadContents : call = [fn |-> "load", content |-> content]
       \/ \E items \in SeqsUpTo(ValidRecords, MaxStored),
             records \in RecordLists \ {<<>>}, writeOk \in BOOLEAN :
             call = [fn |-> "save", content |-> JsonStringify(items),
                     records |-> records, writeOk |-> writeOk]
       \/ \E content \in BatchContents, records \in RecordLists,
             newRecords \in RecordLists \ {<<>>}, writeOk \in BOOLEAN :
             call = [fn |-> "saveNewRecords", content |-> content,
                     records |-> records, newRecords |-> newRecords,
                     writeOk |-> writeOk]

\* a load without its try/catch: a file that cannot be read or parsed ends the
\* process
LoadCall_NoCatch ==
    /\ call.fn = "load"
    /\ ret = NoReturn
    /\ ret' = IF call.content.kind \in {"unreadable", "invalid"}
              THEN [threw |-> TRUE, records |-> <<>>, signatures |-> {}]
              ELSE [threw |-> FALSE,
                    records |-> loadExistingRecords(call.content).records,
                    signatures |-> loadExistingRecords(call.content).signatures]
    /\ UNCHANGED <<pipeline, session, call>>

\* loadExistingRecords() runs on the file as it is found at startup
LoadCall ==
    /\ call.fn = "load"
    /\ ret = NoReturn
    /\ ret' = [threw |-> FALSE,
               records |-> loadExistingRecords(call.content).records,
               signatures |-> loadExistingRecords(call.content).signatures]
    /\ UNCHANGED <<pipeline, session, call>>

\* saveRecords() runs with this list in memory and this file on disk
SaveCall ==
    /\ call.fn = "save"
    /\ ret = NoReturn
    /\ ret' = [file |-> saveRecords([d \in Days |-> call.content], today,
                                    call.records, call.writeOk)[today],
               records |-> call.records]
    /\ UNCHANGED <<pipeline, session, call>>

\* saveNewRecords(newRecords) of the batch-entry variant runs
SaveNewRecordsCall ==
    /\ call.fn = "saveNewRecords"
    /\ ret = NoReturn
    /\ ret' = saveNewRecords(call.content, call.records, call.newRecords, call.writeOk)
    /\ UNCHANGED <<pipeline, session, call>>

NextStore == LoadCall \/ SaveCall \/ SaveNewRecordsCall

SpecStore == InitStore /\ [][NextStore]_vars

\* ------------------------------------------------- the file routes
\* String.prototype.endsWith and String.prototype.includes
EndsWith(str, suffix) ==
    /\ Len(str) >= Len(suffix)
    /\ SubSeq(str, Len(str) - Len(suffix) + 1, Len(str)) = suffix
Includes(str, part) ==
    \E i \in 1..(Len(str) - Len(part) + 1) : SubSeq(str, i, i + Len(part) - 1) = part

\* the test both file routes make on req.params.filename
InvalidFilename(filename) == Includes(filename, "..") \/ ~EndsWith(filename, ".json")

\* The names a request may carry (Express hands over the decoded parameter, so
\* %2F arrives as a slash), each standing for the path path.join(dataDir, name)
\* resolves to: two day files, a .json file that is no day file, a day file's
\* name inside a sub-directory, a file above the data directory, and a day
\* file's name with another extension.
RequestNames ==
    {"attendance_2024-01-01.json", "attendance_2024-01-02.json", "notes.json",
     "backup/attendance_2024-01-01.json", "../package.json",
     "attendance_2024-01-01.txt"}

\* the disk: which of these paths exist, and what each holds
Disks == [RequestNames -> {NoFile, JsonStringify(<<RecordA>>), InvalidJson}]

\* GET /api/files/:filename: 400 for a refused name, 404 for a missing file,
\* 500 when JSON.parse throws, else the parsed content
GetFile(disk, filename) ==
    IF InvalidFilename(filename)
    THEN [status |-> 400, error |-> "Invalid filename", disk |-> disk]
    ELSE IF disk[filename] = NoFile
    THEN [status |-> 404, error |-> "File not found", disk |-> disk]
    ELSE IF disk[filename].kind = "invalid"
    THEN [status |-> 500, error |-> "Unexpected token", disk |-> disk]
    ELSE [status |-> 200, body |-> FileItems(disk[filename]), disk |-> disk]

\* DELETE /api/files/:filename
DeleteFile(disk, filename) ==
    IF InvalidFilename(filename)
    THEN [status |-> 400, error |-> "Invalid filename", disk |-> disk]
    ELSE IF disk[filename] = NoFile
    THEN [status |-> 404, error |-> "File not found", disk |-> disk]
    ELSE [status |-> 200, message |-> "File deleted successfully",
          disk |-> [disk EXCEPT ![filename] = NoFile]]

InitFiles ==
    /\ PipelineAtRest
    /\ session = NoSession
    /\ ret = NoReturn
    /\ \E fn \in {"GET", "DELETE"}, filename \in RequestNames, disk \in Disks :
          call = [fn |-> fn, filename |-> filename, disk |-> disk]

\* a GET /api/files/:filename request is served
GetFileCall ==
    /\ call.fn = "GET"
    /\ ret = NoReturn
    /\ ret' = GetFile(call.disk, call.filename)
    /\ UNCHANGED <<pipeline, session, call>>

\* a DELETE /api/files/:filename request is served
DeleteFileCall ==
    /\ call.fn = "DELETE"
    /\ ret = NoReturn
    /\ ret' = DeleteFile(call.disk, call.filename)
    /\ UNCHANGED <<pipeline, session, call>>

NextFiles == GetFileCall \/ DeleteFileCall

SpecFiles == InitFiles /\ [][NextFiles]_vars

\* ------------------------------------------------- one forward on its own
\* the argument of a call: a list, or nothing at all
Given(list) == [defined |-> TRUE, list |-> list]
Undefined == [defined |-> FALSE]

\* an accepted record whose raw log carried an empty user id
RecordD ==
    [userSn |-> 4, deviceUserId |-> "", name |-> "Unknown", type |-> "IN",
     deviceIP |-> DeviceIN, recordTime |-> "2024-01-01T09:00:00.000Z"]

\* what sendToCSharpAPI may be called with
ForwardArguments ==
    {Undefined} \cup {Given(l) : l \in SeqsUpTo(ValidRecords \cup {RecordD}, MaxStored)}

\* convertToCSharpFormat: the fields renamed; RecordTime is a Date, which the
\* JSON body renders as its ISO string (null for an invalid date)
convertToCSharpFormat(records) ==
    [i \in 1..Len(records) |->
        [UserSN |-> records[i].userSn,
         DeviceUserID |-> records[i].deviceUserId,
         UserName |-> IF records[i].name = "" THEN "Unknown" ELSE records[i].name,
         RecordTime |-> IF ToISOStringThrows(records[i].recordTime) THEN "null"
                        ELSE ToISOString(records[i].recordTime),
         DeviceIP |-> records[i].deviceIP,
         Type |-> IF records[i].type = "" THEN "UNKNOWN" ELSE records[i].type]]

\* a forward that posts whatever list it is given
sendToCSharpAPI_PostsEmpty(records) ==
    IF ~records.defined
    THEN [at |-> "returned", requests |-> <<>>,
          value |-> [success |-> FALSE, message |-> "No records to send"]]
    ELSE [at |-> "post", requests |-> <<convertToCSharpFormat(records.list)>>]

\* sendToCSharpAPI(records) up to its await: the early return on a missing or
\* empty list, else the POST of the converted records is under way
sendToCSharpAPI(records) ==
    IF ~records.defined \/ Len(records.list) = 0
    THEN [at |-> "returned", requests |-> <<>>,
          value |-> [success |-> FALSE, message |-> "No records to send"]]
    ELSE [at |-> "post", requests |-> <<convertToCSharpFormat(records.list)>>]

InitForward ==
    /\ PipelineAtRest
    /\ session = NoSession
    /\ ret = NoReturn
    /\ \E records \in ForwardArguments :
          call = [fn |-> "sendToCSharpAPI", records |-> records]

\* sendToCSharpAPI(records) is called
SendCall ==
    /\ call.fn = "sendToCSharpAPI"
    /\ ret = NoReturn
    /\ ret' = sendToCSharpAPI(call.records)
    /\ UNCHANGED <<pipeline, session, call>>

\* the collector answers 2xx
PostResolves ==
    /\ call.fn = "sendToCSharpAPI"
    /\ ret # NoReturn
    /\ ret.at = "post"
    /\ \E data \in {"uploaded", ""} :
          ret' = [at |-> "returned", requests |-> ret.requests,
                  value |-> [success |-> TRUE, data |-> data,
                             recordsSent |-> Len(call.records.list)]]
    /\ UNCHANGED <<pipeline, session, call>>

\* the POST fails: a non-2xx answer or no connection
PostRejects ==
    /\ call.fn = "sendToCSharpAPI"
    /\ ret # NoReturn
    /\ ret.at = "post"
    /\ \E message \in {"Request failed with status code 500", "connect ECONNREFUSED"} :
          ret' = [at |-> "returned", requests |-> ret.requests,
                  value |-> [success |-> FALSE, error |-> message, recordsSent |-> 0]]
    /\ UNCHANGED <<pipeline, session, call>>

NextForward == SendCall \/ PostResolves \/ PostRejects

SpecForward == InitForward /\ [][NextForward]_vars

\* ------------------------------------------------- the routes that read
\* The three pieces of state the routes report on.
Memory ==
    [records |-> allAttendanceRecords, signatures |-> uniqueSignatures,
     snapshot |-> latestDeviceData]

\* the status a route reports for a terminal: latestDeviceData[ip]?.status || 'unknown'
ReportedStatus(ip) ==
    IF ip \in DOMAIN latestDeviceData THEN latestDeviceData[ip].status ELSE "unknown"

\* the body of GET /api/health
HealthReport ==
    [status |-> "running",
     lastRun |-> IF ReportedStatus(DeviceIN) = "initializing" THEN "Never" ELSE "Recently",
     devices |-> [device1 |-> ReportedStatus(DeviceIN), device2 |-> ReportedStatus(DeviceOUT)],
     dataStats |-> [totalRecords |-> Len(allAttendanceRecords),
                    uniqueSignatures |-> Cardinality(uniqueSignatures)]]

\* the body of GET /api/status
StatusReport ==
    [devices |-> [i \in 1..Len(devices) |->
                     [ip |-> devices[i], status |-> ReportedStatus(devices[i])]],
     data |-> [localRecords |-> Len(allAttendanceRecords)]]

\* the body of the /api/data routes: the snapshot, its combined entry (an
\* empty one while no cycle has published) and the record list
DataReport ==
    [deviceData |-> latestDeviceData,
     combinedData |-> IF "combined" \in DOMAIN latestDeviceData
                      THEN latestDeviceData["combined"]
                      ELSE [attendanceLogs |-> <<>>, allUsers |-> <<>>,
                            adminUsers |-> <<>>, info |-> "none", status |-> "online"],
     totalRecords |-> Len(allAttendanceRecords),
     allAttendanceRecords |-> allAttendanceRecords]

\* the name of the file of day d
DayFileName(d) == "attendance_2024-01-0" \o ToString(d) \o ".json"

\* the body of GET /api/files: the .json files of the data directory (the
\* order, by creation time, is left out)
FileList == {DayFileName(d) : d \in {e \in Days : files[e] # NoFile}}

\* the data directory as the file routes see it
DataDirectory ==
    [name \in {DayFileName(d) : d \in Days} |->
        files[CHOOSE d \in Days : DayFileName(d) = name]]

\* what a route answered, with the state as it was when the request came in
\* and as it is when the answer goes out
Answer(route, before, body) ==
    [route |-> route, before |-> before, after |-> Memory', body |-> body]

InitReads ==
    /\ FreshService
    /\ session = NoSession
    /\ call = NoCall
    /\ ret = NoReturn

\* GET /api/health is served
HealthQuery ==
    /\ call = NoCall /\ ret = NoReturn
    /\ UNCHANGED <<pipeline, session, call>>
    /\ ret' = Answer("/api/health", Memory, HealthReport)

\* GET /api/status is served
StatusQuery ==
    /\ call = NoCall /\ ret = NoReturn
    /\ UNCHANGED <<pipeline, session, call>>
    /\ ret' = Answer("/api/status", Memory, StatusReport)

\* GET /api/data of the local variant is served: it answers from the globals
GetLatestSnapshot ==
    /\ call = NoCall /\ ret = NoReturn
    /\ UNCHANGED <<pipeline, session, call>>
    /\ ret' = Answer("/api/data (local)", Memory, DataReport)

\* GET /api/files is served
ListFiles ==
    /\ call = NoCall /\ ret = NoReturn
    /\ UNCHANGED <<pipeline, session, call>>
    /\ ret' = Answer("/api/files", Memory, FileList)

\* a file route that takes the records of the file it reads into the list
ReadDayFile_Loads ==
    /\ call = NoCall /\ ret = NoReturn
    /\ UNCHANGED <<uniqueSignatures, latestDeviceData, files, today, buffer, started,
                   pc, results, newRecordsCount, currentBatchData, batch, returned,
                   apiLog, saveFailed, restarts, handed, publisher, session, call>>
    /\ \E d \in Days :
          /\ allAttendanceRecords' = loadExistingRecords(files[d]).records
          /\ ret' = Answer("/api/files/:filename", Memory,
                           GetFile(DataDirectory, DayFileName(d)))

\* GET /api/files/:filename is served for a day file's name
ReadDayFile ==
    /\ call = NoCall /\ ret = NoReturn
    /\ UNCHANGED <<pipeline, session, call>>
    /\ \E d \in Days :
          ret' = Answer("/api/files/:filename", Memory,
                        GetFile(DataDirectory, DayFileName(d)))

\* GET /api/data of the remote-sync variant arrives: the route awaits
\* fetchAndSendToAPI() before it answers
DataRouteStart ==
    /\ call = NoCall /\ ret = NoReturn
    /\ \E c \in Cycles :
          /\ c = started + 1
          /\ started' = c
          /\ pc' = [pc EXCEPT ![c] = "fetching"]
          /\ results' = [results EXCEPT ![c] = [ip \in DeviceSet |-> Pending]]
          /\ call' = [fn |-> "/api/data", cycle |-> c, before |-> Memory]
    /\ UNCHANGED <<memory, files, today, buffer, newRecordsCount, currentBatchData,
                   batch, logs, restarts, handed, publisher, session, ret>>

\* the call it awaited has returned: the route answers from the globals
DataRouteResponds ==
    /\ call # NoCall
    /\ pc[call.cycle] = "done"
    /\ UNCHANGED <<pipeline, session>>
    /\ ret' = Answer("/api/data (remote-sync)", call.before, DataReport)
    /\ call' = NoCall

NextReads ==
    \/ HealthQuery
    \/ StatusQuery
    \/ GetLatestSnapshot
    \/ ListFiles
    \/ ReadDayFile
    \/ DataRouteStart
    \/ DataRouteResponds
    \/ CronTick
    \/ \E c \in Cycles, ip \in DeviceSet : FetchDevice(c, ip)
    \/ \E c \in Cycles : ProcessResults(c)
    \/ \E c \in Cycles : ForwardSuccess(c)
    \/ \E c \in Cycles : ForwardFailure(c)
    \/ Restart

SpecReads == InitReads /\ [][NextReads]_vars

\* ------------------------------------------- the batch-entry variant (app.js)
\* The oldest variant keeps no signature set: a record is known when the list
\* holds one with the same userSn, recordTime and deviceIP, and recordTime is
\* kept as the terminal gave it.
EnhanceLogLegacy(log, ip, allUsers) ==
    [userSn |-> log.userSn,
     deviceUserId |-> log.deviceUserId,
     name |-> LookupName(allUsers, log.deviceUserId),
     type |-> IF ip = DeviceIN THEN "IN" ELSE "OUT",
     deviceIP |-> ip,
     recordTime |-> log.recordTime]

\* fetchDeviceData(ip) of this variant (no getInfo, no toISOString)
fetchDeviceDataLegacy(ip, failAt, users, held) ==
    IF failAt \in {"createSocket", "getUsers", "getAttendances", "disconnect"}
    THEN [attendanceLogs |-> <<>>, status |-> "offline", error |-> SessionError]
    ELSE [attendanceLogs |-> [i \in 1..Len(held) |-> EnhanceLogLegacy(held[i], ip, users)],
          status |-> "online"]

isRecordExists(records, record) ==
    \E i \in 1..Len(records) :
       /\ records[i].userSn = record.userSn
       /\ records[i].recordTime = record.recordTime
       /\ records[i].deviceIP = record.deviceIP

\* currentRecords.filter(record => !isRecordExists(record)): every record of
\* the poll is tested against the list as it is before the poll's records
\* are pushed
getNewRecords(records, currentRecords) ==
    SeqFilter(currentRecords,
              {r \in Range(currentRecords) : ~isRecordExists(records, r)})

InitLegacy ==
    /\ PipelineAtRest
    /\ session = NoSession
    /\ call = [fn |-> "legacy"]
    /\ ret = NoReturn

\* fetchDeviceData(ip) of a cycle settles
FetchDeviceLegacy(c, ip) ==
    /\ pc[c] = "fetching"
    /\ results[c][ip] = Pending
    /\ \E failAt \in {"none", "createSocket", "getUsers", "getAttendances", "disconnect"} :
          results' = [results EXCEPT ![c][ip] =
                         Fulfilled(fetchDeviceDataLegacy(ip, failAt, UserTable(ip),
                                                         buffer[ip]))]
    /\ UNCHANGED <<memory, files, today, buffer, started, pc, newRecordsCount,
                   currentBatchData, batch, logs, restarts,
                   handed, publisher, single>>

\* fetchAndSaveNewRecords once Promise.allSettled has resolved: collect the
\* polled records, filter the new ones, saveNewRecords, return
ProcessLegacy(c) ==
    /\ pc[c] = "fetching"
    /\ \A ip \in DeviceSet : results[c][ip] # Pending
    /\ LET allCurrentRecords == Combine(results[c], 1, "attendanceLogs")
           newRecords == getNewRecords(allAttendanceRecords, allCurrentRecords)
       IN  \E writeOk \in BOOLEAN :
              LET saved == saveNewRecords(files[today], allAttendanceRecords,
                                          newRecords, writeOk)
              IN  /\ files' = [files EXCEPT ![today] = saved.file]
                  /\ allAttendanceRecords' = saved.records
                  /\ saveFailed' = (newRecords # <<>> /\ ~writeOk)
                  /\ returned' = [deviceData |-> [ip \in DeviceSet |->
                                                     results[c][ip].value],
                                  newRecordsCount |-> Len(newRecords),
                                  totalRecords |-> Len(saved.records),
                                  currentRecords |-> Len(allCurrentRecords)]
    /\ pc' = [pc EXCEPT ![c] = "done"]
    /\ results' = [results EXCEPT ![c] = [ip \in DeviceSet |-> Pending]]
    /\ UNCHANGED <<uniqueSignatures, latestDeviceData, today, buffer, started,
                   newRecordsCount, currentBatchData, batch, apiLog, restarts,
                   handed, publisher, single>>

\* a terminal comes to hold a record a second time (getAttendances returns
\* what the terminal holds, repeats included)
TerminalRepeats(ip) ==
    /\ \E c \in Cycles : pc[c] = "fetching" /\ results[c][ip] = Pending
    /\ Len(buffer[ip]) < MaxBuf
    /\ \E i \in 1..Len(buffer[ip]) :
          buffer' = [buffer EXCEPT ![ip] = Append(@, buffer[ip][i])]
    /\ UNCHANGED <<memory, files, today, started, cycleLocals, logs,
                   restarts, handed, publisher, single>>

NextLegacy ==
    \/ CronTickAgain
    \/ \E c \in Cycles, ip \in DeviceSet : FetchDeviceLegacy(c, ip)
    \/ \E c \in Cycles : ProcessLegacy(c)
    \/ \E ip \in DeviceSet : DeviceAppend(ip)
    \/ \E ip \in DeviceSet : TerminalRepeats(ip)

SpecLegacy == InitLegacy /\ [][NextLegacy]_vars

\* ------------------------------------------- two records and their signatures
\* The records createRecordSignature may be given: either terminal, user ids
\* of one and two digits and an empty one, every form of time.
SignatureIds == {"7", "8", "78", ""}
SignatureRecords ==
    [deviceIP : DeviceSet, deviceUserId : SignatureIds, recordTime : TimeForms]

InitSignature ==
    /\ PipelineAtRest
    /\ session = NoSession
    /\ ret = NoReturn
    /\ \E a, b \in SignatureRecords :
          call = [fn |-> "createRecordSignature", a |-> a, b |-> b]

\* both signatures are computed and the accept loop is run on the two records,
\* starting from an empty list and an empty set
SignatureCall ==
    /\ call.fn = "createRecordSignature"
    /\ ret = NoReturn
    /\ ret' = [sigA |-> createRecordSignature(call.a),
               sigB |-> createRecordSignature(call.b),
               accepted |-> AcceptRecords(<<call.a, call.b>>,
                                [records |-> <<>>, signatures |-> {},
                                 count |-> 0]).records]
    /\ UNCHANGED <<pipeline, session, call>>

NextSignature == SignatureCall

SpecSignature == InitSignature /\ [][NextSignature]_vars

\* ------------------------------------------- the local variant and deleteDay
\* The variant that only stores (index.js): its cycle ends with saveRecords,
\* there is no POST, and the file routes work on the same data directory.
InitLocal ==
    /\ PipelineAtRest
    /\ session = NoSession
    /\ call = [fn |-> "local"]
    /\ ret = NoReturn

\* what fetchAndSaveNewRecords returns
LocalResult(deviceData, combinedData, count, total) ==
    [deviceData |-> deviceData, combinedData |-> combinedData,
     newRecordsCount |-> count, totalRecords |-> total]

\* a processing step that writes only the records it has just accepted
ProcessAndSave_WritesNewOnly(c) ==
    /\ pc[c] = "fetching"
    /\ \A ip \in DeviceSet : results[c][ip] # Pending
    /\ LET acc == AcceptAll(results[c], 1,
                      [records |-> allAttendanceRecords,
                       signatures |-> uniqueSignatures, count |-> 0])
           data == BuildBatchData(results[c])
       IN  /\ allAttendanceRecords' = acc.records
           /\ uniqueSignatures' = acc.signatures
           /\ latestDeviceData' = PublishSnapshot(latestDeviceData, data)
           /\ results' = [results EXCEPT ![c] = [ip \in DeviceSet |-> Pending]]
           /\ IF acc.count > 0
              THEN \E writeOk \in BOOLEAN :
                      /\ files' = saveRecords(files, today,
                                      SliceLast(acc.records, acc.count), writeOk)
                      /\ saveFailed' = ~writeOk
              ELSE /\ saveFailed' = FALSE
                   /\ UNCHANGED files
           /\ returned' = LocalResult(data, data["combined"], acc.count,
                                      Len(acc.records))
    /\ pc' = [pc EXCEPT ![c] = "done"]
    /\ UNCHANGED <<today, buffer, started, newRecordsCount, currentBatchData, batch,
                   apiLog, restarts, handed, publisher, single>>

\* fetchAndSaveNewRecords once Promise.allSettled has resolved: no await
\* follows, so accepts, snapshot, saveRecords and return are one step
ProcessAndSave(c) ==
    /\ pc[c] = "fetching"
    /\ \A ip \in DeviceSet : results[c][ip] # Pending
    /\ LET acc == AcceptAll(results[c], 1,
                      [records |-> allAttendanceRecords,
                       signatures |-> uniqueSignatures, count |-> 0])
           data == BuildBatchData(results[c])
       IN  /\ allAttendanceRecords' = acc.records
           /\ uniqueSignatures' = acc.signatures
           /\ latestDeviceData' = PublishSnapshot(latestDeviceData, data)
           /\ results' = [results EXCEPT ![c] = [ip \in DeviceSet |-> Pending]]
           /\ IF acc.count > 0
              THEN \E writeOk \in BOOLEAN :
                      /\ files' = saveRecords(files, today, acc.records, writeOk)
                      /\ saveFailed' = ~writeOk
              ELSE /\ saveFailed' = FALSE
                   /\ UNCHANGED files
           /\ returned' = LocalResult(data, data["combined"], acc.count,
                                      Len(acc.records))
    /\ pc' = [pc EXCEPT ![c] = "done"]
    /\ UNCHANGED <<today, buffer, started, newRecordsCount, currentBatchData, batch,
                   apiLog, restarts, handed, publisher, single>>

\* the names a DELETE request is made with here: the day files, and one name
\* the route refuses
DeleteNames == {DayFileName(d) : d \in Days} \cup {"attendance_2024-01-01.txt"}

\* a DELETE /api/files/:filename request is served while the process runs;
\* ret keeps the answer and the length of the record list at that moment
DeleteDay ==
    \E filename \in DeleteNames :
       LET answer == DeleteFile(DataDirectory, filename)
       IN  /\ files' = [d \in Days |-> answer.disk[DayFileName(d)]]
           /\ ret' = [route |-> "DELETE", filename |-> filename,
                      status |-> answer.status, totalRecords |-> Len(allAttendanceRecords)]
           /\ UNCHANGED <<memory, today, buffer, started, cycleLocals, logs,
                          restarts, handed, publisher, session, call>>

NextLocal ==
    \/ CronTickAgain
    \/ \E c \in Cycles, ip \in DeviceSet : FetchDevice(c, ip)
    \/ \E c \in Cycles : ProcessAndSave(c)
    \/ \E ip \in DeviceSet : DeviceAppend(ip)
    \/ DayRollover
    \/ DeleteDay

SpecLocal == InitLocal /\ [][NextLocal]_vars

\* ------------------------------------------- what the collector has received
\* The collector outlives the service: call.delivered is every signature a POST
\* has delivered to it (answered 2xx), in order, whichever process sent it.
InitCollector ==
    /\ PipelineAtRest
    /\ session = NoSession
    /\ call = [fn |-> Collector, delivered |-> <<>>]
    /\ ret = NoReturn

\* the POST of cycle c reaches the collector and is answered 2xx; the rest of
\* fetchAndSendToAPI runs as it does after any resolved sendToCSharpAPI
PostDelivered(c) ==
    /\ pc[c] = "forwarding"
    /\ call' = [call EXCEPT !.delivered =
                   @ \o [i \in 1..Len(batch[c]) |-> createRecordSignature(batch[c][i])]]
    /\ apiLog' = "Success"
    /\ returned' = CycleResult(latestDeviceData, currentBatchData[c]["combined"],
                               newRecordsCount[c], Len(allAttendanceRecords))
    /\ pc' = [pc EXCEPT ![c] = "done"]
    /\ batch' = [batch EXCEPT ![c] = <<>>]
    /\ newRecordsCount' = [newRecordsCount EXCEPT ![c] = 0]
    /\ currentBatchData' = [currentBatchData EXCEPT ![c] = NoBatchData]
    /\ publisher' = IF publisher = c THEN 0 ELSE publisher
    /\ UNCHANGED <<memory, files, today, buffer, started, results, saveFailed,
                   restarts, handed, session, ret>>

NextCollector ==
    \/ CronTick
    \/ \E c \in Cycles, ip \in DeviceSet : FetchDevice(c, ip)
    \/ \E c \in Cycles : ProcessResults(c)
    \/ \E c \in Cycles : PostDelivered(c)
    \/ \E c \in Cycles : ForwardFailure(c)
    \/ \E ip \in DeviceSet : DeviceAppend(ip)
    \/ DayRollover
    \/ Restart

SpecCollector == InitCollector /\ [][NextCollector]_vars

\* ------------------------------------------------------------------ claims
\* the step of cycle c that runs when Promise.allSettled resolves
ProcessStep(c) == pc[c] = "fetching" /\ pc'[c] # "fetching"

\* the entries cycle c works with: built from its settled results while it
\* fetches, its local currentBatchData while it forwards
OwnBatchData(c) ==
    IF pc[c] = "fetching" THEN BuildBatchData(results[c]) ELSE currentBatchData[c]

\* C1: the accepted record list never holds two records with the same
\* signature, and neither does any file content written by saveRecords (every
\* file content other than the ones found at startup).
C1_NoDuplicateSignatures ==
    /\ NoDuplicateSignature(allAttendanceRecords)
    /\ \A d \in Days :
          files[d] \notin InitialFiles => NoDuplicateSignature(FileItems(files[d]))

\* C1 witness: a cycle that was served more logs than it accepted has saved a
\* list of at least two records.
C1_Witness ==
    /\ returned # NoReturn
    /\ returned.newRecordsCount > 0
    /\ returned.newRecordsCount < returned.combinedData.info.logCount
    /\ Len(allAttendanceRecords) >= 2
    /\ files[today] = JsonStringify(allAttendanceRecords)

\* C2: within one process no signature is handed to sendToCSharpAPI twice,
\* whatever became of the earlier POST.
C2_ForwardedAtMostOnce ==
    \A i, j \in 1..Len(handed) : handed[i] = handed[j] => i = j

\* C2 witness: after a failed POST a later cycle is served a record that was in
\* an earlier batch and hands over a batch without it.
C2_Witness ==
    /\ apiLog = "Failed"
    /\ \E c \in Cycles :
          /\ pc[c] = "forwarding"
          /\ publisher = c
          /\ \E i \in 1..Len(latestDeviceData["combined"].attendanceLogs) :
                LET sig == createRecordSignature(
                               latestDeviceData["combined"].attendanceLogs[i])
                IN  sig \in Range(handed) /\ sig \notin Signatures(batch[c])

\* C3: a cycle whose terminals answer exactly as they answered the cycle
\* processed just before it (the latest snapshot holds those answers) reports
\* newRecordsCount = 0 and leaves the record list and the signature set alone.
C3_UnchangedBufferNothingNew ==
    [][\A c \in Cycles :
          (/\ ProcessStep(c)
           /\ \A ip \in DeviceSet :
                 latestDeviceData[ip] = DeviceEntry(results[c][ip], ip))
          => /\ pc'[c] = "done"
             /\ returned'.newRecordsCount = 0
             /\ allAttendanceRecords' = allAttendanceRecords
             /\ uniqueSignatures' = uniqueSignatures]_vars

\* C3 witness: the second of two cycles of one process was served logs and
\* returned newRecordsCount = 0 after the first had accepted records.
C3_Witness ==
    /\ restarts = 0
    /\ started = 2
    /\ InFlight = {}
    /\ handed # <<>>
    /\ returned.newRecordsCount = 0
    /\ returned.combinedData.info.logCount > 0

\* C4: at most one cycle is in flight at any time.
C4_AtMostOneCycleInFlight == Cardinality(InFlight) <= 1

\* C5: a cycle in which one terminal's fetch failed and the other's succeeded
\* returns a result whose deviceData shows the failed terminal offline with
\* error and empty lists and the other online with its users and logs, and
\* whose combinedData holds exactly the other terminal's users and logs.
C5_PartialFailureResult ==
    [][\A c \in Cycles : \A A, B \in DeviceSet :
          (/\ c \in InFlight
           /\ pc'[c] = "done"
           /\ OwnBatchData(c)[A].status = "offline"
           /\ OwnBatchData(c)[B].status = "online")
          => /\ "error" \notin DOMAIN returned'
             /\ returned'.deviceData[B] = OwnBatchData(c)[B]
             /\ returned'.deviceData[A].status = "offline"
             /\ "error" \in DOMAIN returned'.deviceData[A]
             /\ returned'.deviceData[A].allUsers = <<>>
             /\ returned'.deviceData[A].attendanceLogs = <<>>
             /\ returned'.combinedData.allUsers = OwnBatchData(c)[B].allUsers
             /\ returned'.combinedData.attendanceLogs
                    = OwnBatchData(c)[B].attendanceLogs]_vars

\* C6 as stated: the snapshot a reader sees is the initial one or was assigned
\* by a cycle that has returned.
C6_SnapshotOfReturnedCycle == publisher = 0

\* C6 as amended: latestDeviceData changes only by being replaced as a whole:
\* at a restart by the initial entries, else by one cycle's processing step
\* with the entries built from that cycle's own fetch results; the cycle that
\* assigned it has saved by then but may still await its POST.
C6_SnapshotFromOneCycle ==
    /\ [](publisher # 0 => pc[publisher] = "forwarding")
    /\ [][latestDeviceData' # latestDeviceData =>
             \/ restarts' # restarts /\ latestDeviceData' = InitialDeviceData
             \/ \E c \in Cycles :
                   /\ ProcessStep(c)
                   /\ DOMAIN latestDeviceData' = DeviceSet \cup {"combined"}
                   /\ \A ip \in DeviceSet :
                         latestDeviceData'[ip] = DeviceEntry(results[c][ip], ip)
                   /\ latestDeviceData'["combined"].attendanceLogs
                          = Combine(results[c], 1, "attendanceLogs")
                   /\ latestDeviceData'["combined"].allUsers
                          = UniqueByUserId(Combine(results[c], 1, "allUsers"))]_vars

\* C6 witness: a reader can see the snapshot of a cycle that still awaits its
\* POST, while another cycle is fetching.
C6_Witness ==
    /\ publisher # 0
    /\ \E c \in Cycles : pc[c] = "fetching"
    /\ latestDeviceData["combined"].attendanceLogs # <<>>

\* C7 as stated: every record of a batch handed to sendToCSharpAPI is in
\* today's file at that moment.
C7_BatchInFile ==
    [][\A c \in Cycles :
          (batch[c] = <<>> /\ batch'[c] # <<>>)
          => Range(batch'[c]) \subseteq Range(FileItems(files'[today']))]_vars

\* C7 as amended: saveRecords runs before the batch is handed over, and when
\* its write did not fail every record of the batch is in today's file.
C7_BatchInFileUnlessSaveFailed ==
    [][\A c \in Cycles :
          (batch[c] = <<>> /\ batch'[c] # <<>> /\ ~saveFailed')
          => /\ files'[today'] = JsonStringify(allAttendanceRecords')
             /\ Range(batch'[c]) \subseteq Range(FileItems(files'[today']))]_vars

\* C7 witness: a batch of two records is in flight and in today's file, next to
\* a record of an earlier cycle.
C7_Witness ==
    \E c \in Cycles :
       /\ Len(batch[c]) = 2
       /\ ~saveFailed
       /\ Range(batch[c]) \subseteq Range(FileItems(files[today]))
       /\ Len(FileItems(files[today])) > 2

\* C8: when the POST of a cycle fails, that step leaves the record list, the
\* signature set and every file as they were, and the cycle returns its
\* result without an error field; between the call and its failure nothing
\* but another cycle's processing step (or a restart) changes any of the three.
C8_ForwardFailureChangesNothing ==
    [][/\ \A c \in Cycles :
             (pc[c] = "forwarding" /\ pc'[c] = "done" /\ apiLog' = "Failed")
             => /\ allAttendanceRecords' = allAttendanceRecords
                /\ uniqueSignatures' = uniqueSignatures
                /\ files' = files
                /\ "error" \notin DOMAIN returned'
                /\ returned'.newRecordsCount = newRecordsCount[c]
                /\ returned'.totalRecords = Len(allAttendanceRecords)
       /\ (\/ allAttendanceRecords' # allAttendanceRecords
           \/ uniqueSignatures' # uniqueSignatures
           \/ files' # files)
          => (restarts' # restarts \/ \E c \in Cycles : ProcessStep(c))]_vars

\* C8 witness: a cycle whose POST failed has returned and its records are in
\* the list and in today's file.
C8_Witness ==
    /\ apiLog = "Failed"
    /\ InFlight = {}
    /\ returned.apiSent
    /\ returned.newRecordsCount = Len(allAttendanceRecords)
    /\ files[today] = JsonStringify(allAttendanceRecords)

\* C9: a restart on the day whose file holds exactly the accepted list
\* (written by saveRecords) rebuilds that list and its signature set.
C9_SaveLoadRoundTrip ==
    [][(/\ restarts' # restarts
        /\ allAttendanceRecords # <<>>
        /\ files[today] = JsonStringify(allAttendanceRecords))
       => /\ allAttendanceRecords' = allAttendanceRecords
          /\ uniqueSignatures' = uniqueSignatures]_vars

\* C10: no signature is held by the files of two different days.
C10_NoSignatureInTwoDayFiles ==
    \A d1, d2 \in Days :
       d1 # d2 => Signatures(FileItems(files[d1]))
                     \cap Signatures(FileItems(files[d2])) = {}

\* the users handed to the merge, in terminal-then-list order; kept(f) tells
\* which of them list f is built from
MergedInput(keep) ==
    SeqFilter(call.users[DeviceIN] \o call.users[DeviceOUT], keep)

\* list out holds one entry for every userId of list all and that entry is
\* the last one of that userId in all
OncePerUserIdLastKept(all, out) ==
    /\ \A i \in 1..Len(out) : \E j \in 1..Len(all) : all[j].userId = out[i].userId
    /\ \A j \in 1..Len(all) :
          /\ Cardinality({i \in 1..Len(out) : out[i].userId = all[j].userId}) = 1
          /\ (\A k \in (j + 1)..Len(all) : all[k].userId # all[j].userId)
                 => \E i \in 1..Len(out) : out[i] = all[j]

\* C11: in the combined user list and in the combined admin list every userId
\* appears exactly once, and the entry kept for a userId reported several
\* times is the last one in terminal-then-list order.
C11_LastOccurrenceKept ==
    ret # NoReturn =>
       /\ OncePerUserIdLastKept(MergedInput(UserPool), ret.combined.allUsers)
       /\ OncePerUserIdLastKept(MergedInput({u \in UserPool : u.role = AdminRole}),
                                ret.combined.adminUsers)

\* C11 for the cycle function alone
C11_LastOccurrenceKeptInCycle ==
    (ret # NoReturn /\ ret.by = "cycle") =>
       /\ OncePerUserIdLastKept(MergedInput(UserPool), ret.combined.allUsers)
       /\ OncePerUserIdLastKept(MergedInput({u \in UserPool : u.role = AdminRole}),
                                ret.combined.adminUsers)

\* the UTC ISO-8601 renderings
IsoForms == {"2024-01-01T08:00:00.000Z", "2024-01-01T09:00:00.000Z"}

\* the name the user table gives for id: that of the last entry with this
\* userId, "Unknown" when there is no entry or its name is empty
TableName(users, id) ==
    IF \A j \in 1..Len(users) : users[j].userId # id THEN "Unknown"
    ELSE LET j == CHOOSE k \in 1..Len(users) :
                     /\ users[k].userId = id
                     /\ \A m \in (k + 1)..Len(users) : users[m].userId # id
         IN  IF users[j].name = "" THEN "Unknown" ELSE users[j].name

\* C12: a fetch of terminal T that returns online returns one enriched record
\* per raw log, in order, with every raw field kept, deviceIP = T, type IN
\* exactly for the IN terminal address, the user-table name of the log's
\* deviceUserId (Unknown when the table has none or an empty one) and
\* recordTime the same instant in UTC ISO-8601 form.
C12_EnrichedRecords ==
    (session.at = "returned" /\ session.result.status = "online") =>
       LET out == session.result.attendanceLogs
       IN  /\ Len(out) = Len(session.logs)
           /\ \A i \in 1..Len(out) :
                 LET raw == session.logs[i]
                 IN  /\ DOMAIN raw \subseteq DOMAIN out[i]
                     /\ out[i].userSn = raw.userSn
                     /\ out[i].deviceUserId = raw.deviceUserId
                     /\ out[i].deviceIP = session.ip
                     /\ out[i].type = "IN" <=> session.ip = "192.168.18.253"
                     /\ out[i].type = "OUT" <=> session.ip # "192.168.18.253"
                     /\ out[i].name = TableName(session.users, raw.deviceUserId)
                     /\ out[i].recordTime \in IsoForms
                     /\ DateGetTime(out[i].recordTime) = DateGetTime(raw.recordTime)

\* C12 witness: an online result of the OUT terminal holds a record whose
\* time was rewritten and whose name was found, and one named Unknown.
C12_Witness ==
    /\ session.at = "returned"
    /\ session.result.status = "online"
    /\ session.ip = DeviceOUT
    /\ \E i, j \in 1..Len(session.logs) :
          /\ session.result.attendanceLogs[i].recordTime # session.logs[i].recordTime
          /\ session.result.attendanceLogs[i].name = "Alice"
          /\ session.result.attendanceLogs[j].name = "Unknown"

\* some raw log of the session makes toISOString throw
EnrichmentThrows == \E i \in 1..Len(session.logs) : DateGetTime(session.logs[i].recordTime) = NaN

\* C13: a fetch always ends by returning a result; when createSocket, getInfo,
\* getUsers, getAttendances, the enrichment or disconnect failed, the result is
\* offline with the error message and empty allUsers, adminUsers and
\* attendanceLogs; no step of a fetch changes the signature set, the record
\* list or the latest snapshot.
C13_FailureBecomesOfflineResult ==
    /\ [](session.at \in FailPoints \cup {"returned"})
    /\ [](session.at = "returned" =>
             /\ session.result.status \in {"online", "offline"}
             /\ session.result.status = "online"
                    <=> (session.failedAt = "none" /\ ~EnrichmentThrows)
             /\ session.result.status = "offline" =>
                    /\ session.result.deviceIP = session.ip
                    /\ session.result.allUsers = <<>>
                    /\ session.result.adminUsers = <<>>
                    /\ session.result.attendanceLogs = <<>>
                    /\ session.result.error =
                          IF session.failedAt # "none" THEN SessionError ELSE RangeError)
    /\ [][memory' = memory]_vars

\* C13 witness: disconnect failed after users and logs had been read, and the
\* fetch returned offline.
C13_Witness ==
    /\ session.at = "returned"
    /\ session.failedAt = "disconnect"
    /\ session.users # <<>>
    /\ session.logs # <<>>
    /\ session.result.status = "offline"

\* C14: a fetch that opened its session has called disconnect by the time it
\* returns.
C14_DisconnectBeforeReturn ==
    (session.at = "returned" /\ session.opened) => session.disconnectCalled

\* C15: a cycle's processing step attempts a store write (the file becomes the
\* serialised list, or the write error is logged) exactly when it accepted at
\* least one record; with none accepted it leaves every file as it was, hands
\* nothing to sendToCSharpAPI and returns newRecordsCount = 0.
C15_WriteIffNewRecords ==
    [][\A c \in Cycles :
          ProcessStep(c) =>
             LET count == Len(allAttendanceRecords') - Len(allAttendanceRecords)
             IN  /\ count > 0 =>
                       /\ newRecordsCount'[c] = count
                       /\ saveFailed' \/ files'[today] = JsonStringify(allAttendanceRecords')
                       /\ saveFailed' => files' = files
                 /\ count = 0 =>
                       /\ files' = files
                       /\ ~saveFailed'
                       /\ handed' = handed
                       /\ batch'[c] = <<>>
                       /\ pc'[c] = "done"
                       /\ returned'.newRecordsCount = 0]_vars

\* C15 witness: a cycle that was served logs accepted none of them and has
\* returned while today's file is not the serialised list.
C15_Witness ==
    /\ InFlight = {}
    /\ returned # NoReturn
    /\ returned.newRecordsCount = 0
    /\ returned.combinedData.info.logCount > 0
    /\ allAttendanceRecords # <<>>
    /\ files[today] # JsonStringify(allAttendanceRecords)

\* C16: when the write of a cycle's save fails, the records the cycle accepted
\* are in the record list and their signatures in the set, the cycle hands
\* them to sendToCSharpAPI, and once the POST settles it returns a result
\* without error field carrying the same newRecordsCount, the list and the set
\* still holding them.
C16_SaveFailureKeepsAccepted ==
    [][\A c \in Cycles :
          /\ (ProcessStep(c) /\ saveFailed') =>
                LET count == Len(allAttendanceRecords') - Len(allAttendanceRecords)
                IN  /\ count > 0
                    /\ SubSeq(allAttendanceRecords', 1, Len(allAttendanceRecords))
                           = allAttendanceRecords
                    /\ Signatures(allAttendanceRecords') \subseteq uniqueSignatures'
                    /\ files' = files
                    /\ pc'[c] = "forwarding"
                    /\ newRecordsCount'[c] = count
                    /\ batch'[c] = SubSeq(allAttendanceRecords',
                                          Len(allAttendanceRecords) + 1,
                                          Len(allAttendanceRecords'))
          /\ (pc[c] = "forwarding" /\ pc'[c] = "done") =>
                /\ "error" \notin DOMAIN returned'
                /\ returned'.newRecordsCount = newRecordsCount[c]
                /\ returned'.apiSent
                /\ Range(batch[c]) \subseteq Range(allAttendanceRecords')
                /\ Signatures(batch[c]) \subseteq uniqueSignatures']_vars

\* C16 witness: a cycle whose save failed has forwarded its records and
\* returned; the records are in the list and not in today's file.
C16_Witness ==
    /\ InFlight = {}
    /\ saveFailed
    /\ apiLog = "Success"
    /\ returned.apiSent
    /\ returned.newRecordsCount = Len(allAttendanceRecords)
    /\ files[today] = NoFile

\* the accepted records that today's file does not hold
Unwritten == Range(allAttendanceRecords) \ Range(FileItems(files[today]))

\* C17: once a cycle's save has failed, the records it accepted are
\* eventually in the store file, whether or not the terminals record anything
\* new afterwards.
C17_FailedSaveEventuallyWritten ==
    (saveFailed /\ Unwritten # {}) ~> (Unwritten = {})

\* the attendance records a file content holds, directly or inside the
\* attendanceLogs of its batch entries
RecordsOf(content) ==
    LET items == FileItems(content)
        batches == {i \in 1..Len(items) : "attendanceLogs" \in DOMAIN items[i]}
    IN  {items[i] : i \in {j \in 1..Len(items) : j \notin batches /\ items[j] # JsonNull}}
            \cup UNION {Range(items[i].attendanceLogs) : i \in batches}

\* C18: a store write made while today's file holds records that are not in
\* the record list leaves a file that holds the records the file held and the
\* records of the list.
C18_WriteKeepsFileRecords ==
    (/\ ret # NoReturn
     /\ call.fn \in {"save", "saveNewRecords"}
     /\ call.writeOk
     /\ RecordsOf(call.content) \ Range(call.records) # {})
    => /\ RecordsOf(call.content) \subseteq RecordsOf(ret.file)
       /\ Range(ret.records) \subseteq RecordsOf(ret.file)

\* an entry without a user id or without a record time
LacksIdOrTime(item) ==
    \/ item = JsonNull
    \/ "deviceUserId" \notin DOMAIN item
    \/ "recordTime" \notin DOMAIN item
    \/ item.deviceUserId = ""
    \/ item.recordTime = ""

\* C19: load of a stored array skips the entries without user id or record
\* time and loads all the others (one record per signature), however many
\* such entries the array holds and wherever they stand.
C19_MalformedEntriesSkipped ==
    (ret # NoReturn /\ call.fn = "load" /\ call.content.kind = "array") =>
       LET items == call.content.items
       IN  /\ ~ret.threw
           /\ \A r \in Range(ret.records) : r \in Range(items) /\ ~LacksIdOrTime(r)
           /\ \A i \in 1..Len(items) :
                 ~LacksIdOrTime(items[i]) =>
                    /\ createRecordSignature(items[i]) \in ret.signatures
                    /\ createRecordSignature(items[i]) \in Signatures(ret.records)

\* C20: load of a file that cannot be read, is not JSON, or is JSON but no
\* array ends without throwing and leaves the record list and the signature
\* set empty.
C20_LoadFailureLeavesEmpty ==
    (/\ ret # NoReturn
     /\ call.fn = "load"
     /\ call.content.kind \in {"unreadable", "invalid", "object"})
    => /\ ~ret.threw
       /\ ret.records = <<>>
       /\ ret.signatures = {}

\* C20 witness: load has run on a file that is not JSON.
C20_Witness ==
    /\ call.fn = "load"
    /\ call.content = InvalidJson
    /\ ret # NoReturn
    /\ ~ret.threw

\* C21: every started cycle eventually returns a result, also when a terminal
\* never answers and when the collector never answers (every network
\* operation of the cycle being bounded by a timeout).
C21_EveryCycleReturns ==
    \A c \in Cycles : (pc[c] \in {"fetching", "forwarding"}) ~> (pc[c] = "done")

\* C21 with a collector that answers: every started cycle returns
C21_ReturnsWhenCollectorAnswers ==
    \A c \in Cycles :
       (Collector \notin call.silent /\ pc[c] \in {"fetching", "forwarding"})
           ~> (pc[c] = "done")

\* C21, the terminals: the fetch of a silent terminal settles offline and the
\* result the cycle returns holds the logs served by the other terminal
C21_SilentTerminalOffline ==
    /\ [](\A c \in Cycles, ip \in DeviceSet :
             (ip \in call.silent /\ results[c][ip] # Pending)
             => results[c][ip].value.status = "offline")
    /\ [][\A c \in Cycles, ip \in DeviceSet :
             (ProcessStep(c) /\ pc'[c] = "done" /\ results[c][ip].value.status = "online")
             => returned'.deviceData[ip].attendanceLogs
                    = results[c][ip].value.attendanceLogs]_vars

\* the bare name of a day file of the store: attendance_<UTC date>.json
DayStamps == {"2024-01-01", "2024-01-02"}
IsDayFileName(filename) == \E d \in DayStamps : filename = "attendance_" \o d \o ".json"

\* C22: the read and the delete of a stored day act on a file only when the
\* name given is a bare day-stamped store filename; for every other name they
\* answer with the invalid-filename error and read or delete nothing.
C22_OnlyDayFilesTouched ==
    (ret # NoReturn /\ call.fn \in {"GET", "DELETE"} /\ ~IsDayFileName(call.filename))
    => /\ ret.status = 400
       /\ ret.error = "Invalid filename"
       /\ "body" \notin DOMAIN ret
       /\ ret.disk = call.disk

\* C22 for the names with a traversal segment or without the .json ending
C22_TraversalRefused ==
    (/\ ret # NoReturn
     /\ call.fn \in {"GET", "DELETE"}
     /\ call.filename \in {"../package.json", "attendance_2024-01-01.txt"})
    => /\ ret.status = 400
       /\ "body" \notin DOMAIN ret
       /\ ret.disk = call.disk

\* C23: sendToCSharpAPI called with an empty or a missing record list makes no
\* HTTP request and returns a result with success false.
C23_EmptyForwardIsNoOp ==
    (/\ call.fn = "sendToCSharpAPI"
     /\ ret # NoReturn
     /\ (call.records = Undefined \/ call.records = Given(<<>>)))
    => /\ ret.at = "returned"
       /\ ret.requests = <<>>
       /\ ret.value.success = FALSE

\* C23 witness: the call with an empty list has returned.
C23_Witness ==
    /\ call.fn = "sendToCSharpAPI"
    /\ call.records = Given(<<>>)
    /\ ret # NoReturn
    /\ ret.at = "returned"

\* the length the record list had right after the accepts of cycle c: while c
\* awaits its POST, the place in the list of the last record of its batch
LengthAfterAccepts(c) ==
    IF pc[c] = "forwarding"
    THEN CHOOSE i \in 1..Len(allAttendanceRecords) :
            allAttendanceRecords[i] = batch[c][Len(batch[c])]
    ELSE Len(allAttendanceRecords')

\* C24: the result a cycle returns is consistent also when cycles overlap: its
\* per-terminal snapshots and its combined snapshot are built from that
\* cycle's own fetches, and its totalRecords is the length of the record list
\* right after that cycle's own accepts.
C24_ResultFromOwnCycle ==
    [][\A c \in Cycles :
          (c \in InFlight /\ pc'[c] = "done")
          => /\ \A ip \in DeviceSet : returned'.deviceData[ip] = OwnBatchData(c)[ip]
             /\ returned'.deviceData["combined"] = OwnBatchData(c)["combined"]
             /\ returned'.combinedData = OwnBatchData(c)["combined"]
             /\ returned'.totalRecords = LengthAfterAccepts(c)]_vars

\* some cycle of the running process has assigned latestDeviceData
SnapshotPublished == returned # NoReturn \/ publisher # 0

\* C25: every per-terminal entry of the latest snapshot has an error field
\* exactly when its status is offline; the entries are initializing, with
\* empty lists, only until the first cycle of the process publishes its
\* snapshot, and online or offline from then on.
C25_ErrorIffOffline ==
    \A ip \in DeviceSet :
       LET entry == latestDeviceData[ip]
       IN  /\ entry.status \in {"initializing", "online", "offline"}
           /\ "error" \in DOMAIN entry <=> entry.status = "offline"
           /\ entry.status = "initializing" <=> ~SnapshotPublished
           /\ entry.status = "initializing" =>
                 /\ entry.allUsers = <<>>
                 /\ entry.adminUsers = <<>>
                 /\ entry.attendanceLogs = <<>>

\* C25 witness: after a restart a cycle has published a snapshot with one
\* terminal offline and the other online with logs.
C25_Witness ==
    /\ restarts = 1
    /\ SnapshotPublished
    /\ \E A, B \in DeviceSet :
          /\ latestDeviceData[A].status = "offline"
          /\ "error" \in DOMAIN latestDeviceData[A]
          /\ latestDeviceData[B].status = "online"
          /\ latestDeviceData[B].attendanceLogs # <<>>

\* the routes that answer from the globals and the files without calling the
\* cycle function
ReadRoutes ==
    {"/api/health", "/api/status", "/api/data (local)", "/api/files",
     "/api/files/:filename"}

\* C26: the signature set, the record list and the latest snapshot are changed
\* only by the startup load and by cycle runs (a cycle's processing step): a
\* health or status query, a read of the latest snapshot, the listing of the
\* stored days and the read of a day file leave all three as they were.
C26_ReadsChangeNothing ==
    /\ [](ret # NoReturn /\ ret.route \in ReadRoutes => ret.after = ret.before)
    /\ [][ret' # ret => memory' = memory]_vars
    /\ [][memory' # memory =>
             (restarts' # restarts \/ \E c \in Cycles : ProcessStep(c))]_vars

\* C26 witness: a health query was answered while a cycle that had accepted
\* records was awaiting its POST.
C26_Witness ==
    /\ ret # NoReturn
    /\ ret.route = "/api/health"
    /\ ret.body.dataStats.totalRecords > 0
    /\ ret.after.records = allAttendanceRecords
    /\ \E c \in Cycles : pc[c] = "forwarding"

\* C27: every store write goes to the file named after the UTC date at the
\* moment of the write and to no other: the first write after a day rollover
\* creates the new day's file and leaves the file of the day before as it was.
C27_WriteTargetsToday ==
    [][files' # files =>
          /\ today' = today
          /\ \E c \in Cycles : ProcessStep(c)
          /\ \A d \in Days :
                files'[d] = IF d = today THEN JsonStringify(allAttendanceRecords')
                            ELSE files[d]]_vars

\* C27 witness: after a rollover a cycle has written the new day's file, and
\* the file written the day before is still there with fewer records.
C27_Witness ==
    /\ today = 2
    /\ files[1] \notin InitialFiles
    /\ files[2] = JsonStringify(allAttendanceRecords)
    /\ Len(FileItems(files[1])) > 0
    /\ Len(FileItems(files[1])) < Len(FileItems(files[2]))

\* C28: a raw log with a missing or unparsable recordTime does not fail the
\* fetch: when every SDK call of the session succeeded the terminal is
\* returned online, with a record for each of its other raw logs.
C28_BadRecordTimeTolerated ==
    (session.at = "returned" /\ session.failedAt = "none")
    => /\ session.result.status = "online"
       /\ \A i \in 1..Len(session.logs) :
             DateGetTime(session.logs[i].recordTime) # NaN
             => \E j \in 1..Len(session.result.attendanceLogs) :
                   session.result.attendanceLogs[j].userSn = session.logs[i].userSn

\* the enriched logs of the terminals cycle c fetched successfully, in the
\* configured order of the terminals
OnlineLogs(c) ==
    LET logsOf(ip) == IF DeviceEntry(results[c][ip], ip).status = "online"
                      THEN results[c][ip].value.attendanceLogs ELSE <<>>
    IN  logsOf(DeviceIN) \o logsOf(DeviceOUT)

\* C29: the combined snapshot a cycle publishes holds, as attendance logs, the
\* enriched logs of every successfully fetched terminal in terminal order
\* (new or not); info.logCount is the length of that list and info.userCounts
\* the number of entries of the deduplicated user list.
C29_CombinedCounts ==
    [][\A c \in Cycles :
          ProcessStep(c) =>
             LET combined == latestDeviceData'["combined"]
             IN  /\ combined.attendanceLogs = OnlineLogs(c)
                 /\ combined.info.logCount = Len(combined.attendanceLogs)
                 /\ combined.info.userCounts = Len(combined.allUsers)]_vars

\* C29 without the user count
C29_CombinedLogs ==
    [][\A c \in Cycles :
          ProcessStep(c) =>
             LET combined == latestDeviceData'["combined"]
             IN  /\ combined.attendanceLogs = OnlineLogs(c)
                 /\ combined.info.logCount = Len(combined.attendanceLogs)
                 /\ combined.info.userCounts
                        = Len(Combine(results[c], 1, "allUsers"))]_vars

\* C30: the signature set is exactly the set of signatures of the records of
\* the accepted list, and its size is the list's length: the health report's
\* uniqueSignatures equals its totalRecords.
C30_SetMatchesList ==
    /\ uniqueSignatures = Signatures(allAttendanceRecords)
    /\ Cardinality(uniqueSignatures) = Len(allAttendanceRecords)
    /\ HealthReport.dataStats.uniqueSignatures = HealthReport.dataStats.totalRecords

\* C30 witness: a process restarted on a file of several records has accepted
\* and handed over a further record.
C30_Witness ==
    /\ restarts = 1
    /\ handed # <<>>
    /\ Len(allAttendanceRecords) >= 3
    /\ Cardinality(uniqueSignatures) = Len(allAttendanceRecords)

\* list s is the beginning of list t
IsPrefix(s, t) == Len(s) <= Len(t) /\ SubSeq(t, 1, Len(s)) = s

\* the length the record list had when cycle c began its accepts
LengthBeforeAccepts(c) ==
    IF pc[c] = "forwarding"
    THEN LengthAfterAccepts(c) - newRecordsCount[c]
    ELSE Len(allAttendanceRecords)

\* C31: after the startup load the record list only grows by appending (every
\* step of a running process leaves the old list as the beginning of the new
\* one), and the totalRecords a cycle returns is the length the list had
\* before that cycle's accepts plus the cycle's newRecordsCount.
C31_AppendOnlyAndTotal ==
    [][/\ restarts' = restarts => IsPrefix(allAttendanceRecords, allAttendanceRecords')
       /\ \A c \in Cycles :
             (c \in InFlight /\ pc'[c] = "done")
             => returned'.totalRecords
                    = LengthBeforeAccepts(c) + returned'.newRecordsCount]_vars

\* the first half of C31 on its own: no step of a running process removes or
\* reorders a record of the list
C31_OnlyAppends ==
    [][restarts' = restarts
          => IsPrefix(allAttendanceRecords, allAttendanceRecords')]_vars

\* the records the step appends to the list, and the newRecordsCount the
\* processing step of cycle c leaves (in its local, or in the result it returns)
Appended == SubSeq(allAttendanceRecords', Len(allAttendanceRecords) + 1,
                   Len(allAttendanceRecords'))
CountAfterProcess(c) ==
    IF pc'[c] = "forwarding" THEN newRecordsCount'[c] ELSE returned'.newRecordsCount

\* C32: when a cycle's accepts run while another cycle is in flight, the list
\* and the set stay consistent: the cycle appends exactly newRecordsCount
\* records, each with a signature that was not in the set (so none that the
\* other cycle accepted) and no two alike, the set grows by exactly those
\* signatures, and when the other cycle has accepted already the two
\* newRecordsCount add up to the number of records the two added to the list.
C32_OverlapKeepsIndexConsistent ==
    [][\A c, d \in Cycles :
          (ProcessStep(c) /\ d # c /\ d \in InFlight)
          => /\ IsPrefix(allAttendanceRecords, allAttendanceRecords')
             /\ CountAfterProcess(c) = Len(Appended)
             /\ NoDuplicateSignature(Appended)
             /\ Signatures(Appended) \cap uniqueSignatures = {}
             /\ uniqueSignatures' = uniqueSignatures \cup Signatures(Appended)
             /\ Cardinality(uniqueSignatures') = Len(allAttendanceRecords')
             /\ pc[d] = "forwarding"
                   => /\ Signatures(batch[d]) \cap Signatures(Appended) = {}
                      /\ newRecordsCount[d] + CountAfterProcess(c)
                            = Len(allAttendanceRecords') - LengthBeforeAccepts(d)]_vars

\* C32 witness: two cycles await their POSTs together, each having accepted
\* records, the second one having been served a record the first had accepted.
C32_Witness ==
    /\ \A c \in Cycles : pc[c] = "forwarding" /\ newRecordsCount[c] > 0
    /\ publisher # 0
    /\ \E d \in Cycles \ {publisher} :
          Signatures(latestDeviceData["combined"].attendanceLogs)
              \cap Signatures(batch[d]) # {}

\* C33: the batch a cycle hands to sendToCSharpAPI is exactly the records that
\* cycle appended to the list, in the order it appended them, also when
\* another cycle is in flight; the batch stays as it is while the POST is
\* awaited, whatever another cycle appends meanwhile.
C33_BatchIsOwnAccepts ==
    [][\A c \in Cycles :
          /\ (ProcessStep(c) /\ pc'[c] = "forwarding")
                => /\ batch'[c] = Appended
                   /\ Len(batch'[c]) = newRecordsCount'[c]
          /\ (ProcessStep(c) /\ pc'[c] = "done") => Appended = <<>>
          /\ (pc[c] = "forwarding" /\ pc'[c] = "forwarding")
                => batch'[c] = batch[c]]_vars

\* C33 witness: a cycle awaits its POST with a batch that is no longer the end
\* of the list, another cycle having appended its own records after it.
C33_Witness ==
    \E c, d \in Cycles :
       /\ c # d
       /\ pc[c] = "forwarding"
       /\ pc[d] = "forwarding"
       /\ batch[c] # <<>>
       /\ batch[d] = SliceLast(allAttendanceRecords, newRecordsCount[d])
       /\ batch[c] # SliceLast(allAttendanceRecords, newRecordsCount[c])

\* C34: across restarts no signature is delivered to the collector twice,
\* also when the restart falls on a later UTC day than the record was saved
\* or follows a cycle whose write failed, the terminals still serving the
\* record.
C34_DeliveredAtMostOnceAcrossRestarts ==
    \A i, j \in 1..Len(call.delivered) :
       call.delivered[i] = call.delivered[j] => i = j

\* the part of C34 the load does secure: a restart leaves in the signature
\* set every delivered signature that a well-formed entry of the current
\* day's file carries, so the new process does not hand it over again
C34_RestartKeepsSavedSignatures ==
    [][restarts' # restarts
          => \A r \in Range(FileItems(files[today])) :
                (WellFormed(r) /\ createRecordSignature(r) \in Range(call.delivered))
                   => createRecordSignature(r) \in uniqueSignatures']_vars

\* C35: every record a cycle accepted and saveRecords wrote passes the filter
\* of the load: a restart on the day whose file holds the accepted list
\* rebuilds a signature set that has the signature of every record of that
\* list, records with an empty deviceUserId included.
C35_AcceptedRecordsSurviveLoad ==
    [][(/\ restarts' # restarts
        /\ files[today] = JsonStringify(allAttendanceRecords))
       => /\ \A r \in Range(FileItems(files[today])) : WellFormed(r)
          /\ Signatures(allAttendanceRecords) \subseteq uniqueSignatures']_vars

\* C35 for the records that have a user id: a restart on the day whose file
\* holds the accepted list keeps the signature of every record of the list
\* whose deviceUserId is not empty
C35_RecordsWithUserIdSurviveLoad ==
    [][(/\ restarts' # restarts
        /\ files[today] = JsonStringify(allAttendanceRecords))
       => \A r \in Range(allAttendanceRecords) :
             r.deviceUserId # "" => createRecordSignature(r) \in uniqueSignatures']_vars

\* a DELETE request removes the file of the current day
DeletesToday == files[today] # NoFile /\ files'[today] = NoFile /\ today' = today

\* C36: deleting the current day's file while the process runs leaves the
\* record list and the signature set as they are; a cycle that then accepts
\* nothing (its terminals serve only known records) returns newRecordsCount 0
\* and creates no file; a cycle that accepts a record calls saveRecords with
\* the whole list, so the file it writes holds every record of the list, those
\* of the deleted file included.
C36_DeleteKeepsMemory ==
    [][/\ DeletesToday
          => /\ allAttendanceRecords' = allAttendanceRecords
             /\ uniqueSignatures' = uniqueSignatures
       /\ \A c \in Cycles :
             ProcessStep(c) =>
                /\ IsPrefix(allAttendanceRecords, allAttendanceRecords')
                /\ returned'.newRecordsCount = Len(Appended)
                /\ (\A ip \in DeviceSet :
                       Signatures(DeviceEntry(results[c][ip], ip).attendanceLogs)
                           \subseteq uniqueSignatures)
                      => /\ Appended = <<>>
                         /\ files' = files
                /\ (Appended # <<>> /\ ~saveFailed')
                      => files'[today] = JsonStringify(allAttendanceRecords')]_vars

\* C36 witness: today's file was deleted while the list held records, and a
\* later cycle that accepted a new record has written a file that holds the
\* whole list, the records of the deleted file included.
C36_Witness ==
    /\ ret # NoReturn
    /\ ret.status = 200
    /\ ret.filename = DayFileName(today)
    /\ ret.totalRecords > 0
    /\ returned.newRecordsCount > 0
    /\ Len(allAttendanceRecords) = ret.totalRecords + returned.newRecordsCount
    /\ files[today] = JsonStringify(allAttendanceRecords)

\* a state the local variant reaches: the day's file was deleted while the
\* list held records, a cycle that was served logs found nothing new, and
\* there is still no file of the day
C36_IdleCycleLeftNoFile ==
    /\ ret # NoReturn
    /\ ret.status = 200
    /\ ret.filename = DayFileName(today)
    /\ ret.totalRecords > 0
    /\ returned.newRecordsCount = 0
    /\ returned.totalRecords = ret.totalRecords
    /\ returned.combinedData.info.logCount > 0
    /\ files[today] = NoFile

\* the fields of a cycle result that is no error
ResultFields == {"deviceData", "combinedData", "newRecordsCount", "totalRecords", "apiSent"}

\* C37: the apiSent of a cycle result is TRUE exactly when the cycle accepted
\* a record, which is exactly when it handed a batch to sendToCSharpAPI; the
\* result of a cycle whose POST failed has the same fields and the same values
\* as it would have had with the POST answered, and no error field.
C37_ApiSentMeansAttempted ==
    [][\A c \in Cycles :
          /\ (pc[c] = "fetching" /\ pc'[c] = "done")
                => /\ returned'.apiSent = FALSE
                   /\ Appended = <<>>
                   /\ handed' = handed
          /\ (pc[c] = "fetching" /\ pc'[c] = "forwarding")
                => /\ Appended # <<>>
                   /\ handed' # handed
          /\ (pc[c] = "forwarding" /\ pc'[c] = "done")
                => /\ apiLog' \in {"Success", "Failed"}
                   /\ DOMAIN returned' = ResultFields
                   /\ returned'.apiSent = TRUE
                   /\ returned'.newRecordsCount = newRecordsCount[c]
                   /\ returned' = CycleResult(latestDeviceData,
                                              currentBatchData[c]["combined"],
                                              newRecordsCount[c],
                                              Len(allAttendanceRecords))]_vars

\* C37 witness: a cycle whose POST failed has returned a result with
\* apiSent = TRUE and no error field.
C37_Witness ==
    /\ apiLog = "Failed"
    /\ \E c \in Cycles : pc[c] = "done"
    /\ returned # NoReturn
    /\ DOMAIN returned = ResultFields
    /\ returned.apiSent
    /\ returned.newRecordsCount > 0

\* a record of a configured terminal with a numeric user id and a valid time
WellFormedEvent(r) ==
    /\ r.deviceIP \in DeviceSet
    /\ r.deviceUserId # ""
    /\ DateGetTime(r.recordTime) # NaN

\* two records are the same attendance event: same terminal, same user id,
\* same instant
SameEvent(a, b) ==
    /\ a.deviceIP = b.deviceIP
    /\ a.deviceUserId = b.deviceUserId
    /\ DateGetTime(a.recordTime) = DateGetTime(b.recordTime)

\* C38: on well-formed records createRecordSignature is injective up to the
\* event: two such records have equal signatures only if they are the same
\* event (and always if they are), so the accept loop, given two well-formed
\* records of different events, accepts both.
C38_SignatureInjective ==
    (ret # NoReturn /\ WellFormedEvent(call.a) /\ WellFormedEvent(call.b))
    => /\ (ret.sigA = ret.sigB) <=> SameEvent(call.a, call.b)
       /\ ~SameEvent(call.a, call.b) => ret.accepted = <<call.a, call.b>>

\* C38 witness: two well-formed records that differ in the terminal alone
\* got different signatures and were both accepted.
C38_Witness ==
    /\ ret # NoReturn
    /\ WellFormedEvent(call.a)
    /\ WellFormedEvent(call.b)
    /\ call.a.deviceIP # call.b.deviceIP
    /\ call.a.deviceUserId = call.b.deviceUserId
    /\ call.a.recordTime = call.b.recordTime
    /\ ret.sigA # ret.sigB
    /\ Len(ret.accepted) = 2

\* no two positions of s hold records with the same userSn, recordTime and
\* deviceIP
NoDuplicateKey(s) ==
    \A i, j \in 1..Len(s) :
       (/\ s[i].userSn = s[j].userSn
        /\ s[i].recordTime = s[j].recordTime
        /\ s[i].deviceIP = s[j].deviceIP) => i = j

\* C39: in the batch-entry variant the record list never holds two records
\* with equal userSn, recordTime and deviceIP, also when one poll returns the
\* same record twice.
C39_NoDuplicateKeys == NoDuplicateKey(allAttendanceRecords)

\* C39 while no terminal serves a record twice in one poll: with buffers free
\* of repeats the list has no two records with the same key, over any number
\* of cycles, failed writes and offline terminals
C39_NoDuplicateKeysWithoutRepeats ==
    (\A ip \in DeviceSet :
        \A i, j \in 1..Len(buffer[ip]) : buffer[ip][i] = buffer[ip][j] => i = j)
    => NoDuplicateKey(allAttendanceRecords)

====
